---- MODULE Spec2Model ----
(***************************************************************************)
(* A model of subpop's dyne import machinery (subpop/util.py):             *)
(* DyneFinder (manifest store, namespace resolution, classification),      *)
(* PluginDirectory (named access and enumeration of a subsystem) and the   *)
(* import statement that drives them.  Python strings are TLA+ strings,    *)
(* and the string and path functions the code calls are computed on them.  *)
(***************************************************************************)
EXTENDS Integers, Sequences, FiniteSets, TLC

(***************************************************************************)
(* Bounds of the model.                                                    *)
(***************************************************************************)
\* number of operations (imports, loads, accesses, new files) in a run
MaxOps == 3
\* number of entries of the subsystem directory at start-up
MaxFiles == 2
\* number of unit files that may appear in the filesystem after start-up
MaxNewFiles == 1
\* number of threads of the process
MaxThreads == 2
\* number of operations on a hub in a run, its construction included
MaxHubOps == 4

\* the most HubClient instances of the process
MaxClients == 2

\* the most passes of the loop of a search that do not leave the loop
MaxSteps == 5

\* the most requests sent, messages received and timeouts of the clients
MaxMsgs == 4

(***************************************************************************)
(* Python string functions.                                                *)
(***************************************************************************)
CharAt(s, i) == SubSeq(s, i, i)

startswith(s, p) == Len(s) >= Len(p) /\ SubSeq(s, 1, Len(p)) = p

endswith(s, suf) == Len(s) >= Len(suf) /\ SubSeq(s, Len(s) - Len(suf) + 1, Len(s)) = suf

\* the least element of a set of positions, 0 if there is none
FirstOf(hits) == IF hits = {} THEN 0 ELSE CHOOSE i \in hits : \A j \in hits : i <= j

\* the greatest element of a set of positions, 0 if there is none
LastOf(hits) == IF hits = {} THEN 0 ELSE CHOOSE i \in hits : \A j \in hits : i >= j

\* s.find(c) + 1 for a one-character c: the first position of c, 0 if none
find(s, c) == FirstOf({i \in 1..Len(s) : CharAt(s, i) = c})

\* s.rfind(c) + 1
rfind(s, c) == LastOf({i \in 1..Len(s) : CharAt(s, i) = c})

RECURSIVE split(_, _)
\* s.split(sep), given the position i of the first separator
split_at(s, sep, i) ==
    IF i = 0 THEN <<s>>
    ELSE <<SubSeq(s, 1, i - 1)>> \o split(SubSeq(s, i + 1, Len(s)), sep)

split(s, sep) == split_at(s, sep, find(s, sep))

RECURSIVE join(_, _)
join(sep, parts) ==
    IF Len(parts) = 0 THEN ""
    ELSE IF Len(parts) = 1 THEN parts[1]
    ELSE parts[1] \o sep \o join(sep, Tail(parts))

\* s[:-n]
DropLast(s, n) == SubSeq(s, 1, Len(s) - n)

\* l[n:] on a list (0-based n)
ListFrom(l, n) == SubSeq(l, n + 1, Len(l))

\* l[:n] on a list
ListUpTo(l, n) == SubSeq(l, 1, IF n < Len(l) THEN n ELSE Len(l))

(***************************************************************************)
(* posixpath.                                                              *)
(***************************************************************************)
path_join2(a, b) ==
    IF startswith(b, "/") THEN b
    ELSE IF a = "" \/ endswith(a, "/") THEN a \o b
    ELSE a \o "/" \o b

path_join3(a, b, c) == path_join2(path_join2(a, b), c)

RECURSIVE rstrip_slash(_)
rstrip_slash(s) == IF endswith(s, "/") THEN rstrip_slash(DropLast(s, 1)) ELSE s

\* os.path.dirname, given the part of the path up to its last slash
dirname_of(head) == IF head # "" /\ rstrip_slash(head) # "" THEN rstrip_slash(head) ELSE head

dirname(p) == dirname_of(SubSeq(p, 1, rfind(p, "/")))

\* the non-empty components of a path
Components(p) == SelectSeq(split(p, "/"), LAMBDA c : c # "")

Canonical(p) == "/" \o join("/", Components(p))

(***************************************************************************)
(* The filesystem: a function from the canonical absolute path of every    *)
(* existing entry to its kind, "dir" or "file".  There are no symbolic     *)
(* links.  The root directory "/" always exists.                           *)
(***************************************************************************)
KindAt(f, p) == IF p \in DOMAIN f THEN f[p] ELSE "ENOENT"

RECURSIVE StatWalk(_, _, _, _)
\* one step of the path walk of stat: kind is the kind of component i
StatNext(f, comps, i, trailing, kind) ==
    IF kind = "ENOENT" THEN "ENOENT"
    ELSE IF i = Len(comps)
         THEN IF kind = "file" /\ trailing THEN "ENOTDIR" ELSE kind
    ELSE IF kind = "file" THEN "ENOTDIR"
    ELSE StatWalk(f, comps, i + 1, trailing)

StatWalk(f, comps, i, trailing) ==
    StatNext(f, comps, i, trailing, KindAt(f, "/" \o join("/", ListUpTo(comps, i))))

StatComponents(f, comps, trailing) ==
    IF Len(comps) = 0 THEN "dir" ELSE StatWalk(f, comps, 1, trailing)

\* os.stat(p, follow_symlinks=True): the kind of p, or the errno it fails with
os_stat(f, p) ==
    IF p = "" THEN "ENOENT" ELSE StatComponents(f, Components(p), endswith(p, "/"))

path_exists(f, p) == os_stat(f, p) \in {"dir", "file"}

\* the names of the entries of f directly below the canonical directory d
EntriesBelow(f, d) ==
    {SubSeq(q, Len(d) + 2, Len(q)) :
        q \in {r \in DOMAIN f : /\ startswith(r, d \o "/")
                                /\ find(SubSeq(r, Len(d) + 2, Len(r)), "/") = 0}}

\* os.listdir(p) as a set; the order of the listing is chosen by the caller
os_listdir(f, p) == EntriesBelow(f, Canonical(p))

\* os.path.realpath(os.path.expanduser(p)) for a path without links or "~"
realpath(cwd, p) == IF startswith(p, "/") THEN Canonical(p) ELSE Canonical(path_join2(cwd, p))

(***************************************************************************)
(* Python values and module objects.  A value is None, a string, an empty  *)
(* list, the DyneFinder, some object a unit's source defines, or a         *)
(* reference to a module object of the heap.                               *)
(***************************************************************************)
NoneVal == [t |-> "None", id |-> 0, s |-> ""]
StrVal(s) == [t |-> "str", id |-> 0, s |-> s]
ListVal == [t |-> "list", id |-> 0, s |-> ""]
FinderVal == [t |-> "DyneFinder", id |-> 0, s |-> ""]
ObjVal(s) == [t |-> "object", id |-> 0, s |-> s]
ModVal(i) == [t |-> "module", id |-> i, s |-> ""]

IsModule(v) == v.t = "module"

\* types.ModuleType(fullname): a fresh module object
ModuleType(fullname) ==
    [cls |-> "ModuleType",
     attrs |-> ("__name__" :> StrVal(fullname)) @@ ("__doc__" :> NoneVal)]

\* PluginDirectory(fullname, path, importer)
PluginDirectory(fullname, path, importer) ==
    [cls |-> "PluginDirectory",
     attrs |-> ModuleType(fullname).attrs @@ ("path" :> path) @@ ("importer" :> importer)]

\* setattr(obj, name, val)
SetAttr(obj, name, val) ==
    [obj EXCEPT !.attrs = (name :> val) @@ obj.attrs]

\* what the source of a unit file defines at its top level, unless Sources
\* says otherwise
UnitGlobals == {"BAR"}

\* the source of a unit file: the names its top-level code binds, the free
\* names its top-level code reads, and what it binds to __init__: nothing
\* ("none"), a function without parameters ("function"), a function with a
\* required parameter ("function_args"), or a value that is not a function
Source(globals, reads, init) == [globals |-> globals, reads |-> reads, init |-> init]

DefaultSource == Source(UnitGlobals, {}, "none")

\* the unit files whose source is not the default one, by file name
Sources ==
    ("init.py" :> Source(UnitGlobals, {}, "function"))
    @@ ("needs.py" :> Source(UnitGlobals, {}, "function_args"))
    @@ ("initval.py" :> Source(UnitGlobals, {}, "value"))
    @@ ("usehub.py" :> Source(UnitGlobals, {"hub"}, "none"))
    @@ ("usemodel.py" :> Source(UnitGlobals, {"MODEL"}, "none"))

\* os.path.basename
basename(p) == SubSeq(p, rfind(p, "/") + 1, Len(p))

SourceNamed(name) == IF name \in DOMAIN Sources THEN Sources[name] ELSE DefaultSource

SourceOf(file) == SourceNamed(basename(file))

FuncVal(kind) == [t |-> "function", id |-> 0, s |-> kind]

\* the binding of __init__ that a source makes
InitBinding(src) ==
    IF src.init = "none" THEN [n \in {} |-> NoneVal]
    ELSE IF src.init = "value" THEN ("__init__" :> ObjVal("__init__"))
    ELSE ("__init__" :> FuncVal(src.init))

\* SourceFileLoader.exec_module(mod) raises NameError: the top-level code
\* reads a name that is not in mod's namespace
exec_raises(obj, src) == src.reads \ DOMAIN obj.attrs # {}

\* SourceFileLoader.exec_module(mod): run the unit's source in mod's namespace
exec_module(obj, src) ==
    [obj EXCEPT !.attrs = InitBinding(src) @@ [n \in src.globals |-> ObjVal(n)] @@ obj.attrs]

(***************************************************************************)
(* YAMLProjectData: the parsed content of one subpop.yaml.  A document is  *)
(* empty (None), a mapping, a list, a string, a number, or text that is not *)
(* YAML; a mapping has an optional "namespace" and an optional             *)
(* "subsystems" table from subsystem name to its relative path.  keys are  *)
(* the keys of a mapping or the items of a list, val the text of a string. *)
(***************************************************************************)
NoSubs == [n \in {} |-> ""]

YamlNone == [t |-> "None", keys |-> {}, namespace |-> "", subsystems |-> NoSubs, val |-> ""]
YamlMap(keys, ns, subs) ==
    [t |-> "map", keys |-> keys, namespace |-> ns, subsystems |-> subs, val |-> ""]
YamlList(items) == [t |-> "list", keys |-> items, namespace |-> "", subsystems |-> NoSubs, val |-> ""]
YamlStr(text) == [t |-> "str", keys |-> {}, namespace |-> "", subsystems |-> NoSubs, val |-> text]
YamlInt == [t |-> "int", keys |-> {}, namespace |-> "", subsystems |-> NoSubs, val |-> ""]
YamlInvalid == [t |-> "invalid", keys |-> {}, namespace |-> "", subsystems |-> NoSubs, val |-> ""]

\* sub in s, for strings
contains(s, sub) == \E i \in 1..(Len(s) - Len(sub) + 1) : SubSeq(s, i, i + Len(sub) - 1) = sub

\* key in yaml_dat, for a document that is a container: key membership in a
\* mapping, item membership in a list, substring test in a string
yaml_in(key, yaml_dat) ==
    IF yaml_dat.t = "str" THEN contains(yaml_dat.val, key) ELSE key \in yaml_dat.keys

ProjectData(exc, yaml_path, yaml_dat) ==
    [exc |-> exc, yaml_path |-> yaml_path, yaml_dat |-> yaml_dat]

\* YAMLProjectData.__init__: the object, or the exception it raises
YAMLProjectData(yaml_path, yaml_dat) ==
    IF yaml_dat.t = "invalid" THEN ProjectData("YAMLError", yaml_path, yaml_dat)
    ELSE IF yaml_dat.t = "None" THEN ProjectData("KeyError", yaml_path, yaml_dat)
    ELSE IF yaml_dat.t = "int" THEN ProjectData("TypeError", yaml_path, yaml_dat)
    ELSE IF ~yaml_in("namespace", yaml_dat) THEN ProjectData("KeyError", yaml_path, yaml_dat)
    ELSE ProjectData("", yaml_path, yaml_dat)

\* the namespace property, yaml_dat["namespace"]: TRUE when it raises
namespace_raises(proj) == proj.yaml_dat.t # "map"

project_path(proj) == dirname(proj.yaml_path)

\* get_subsystem(sub_name): the subsystem's entry, or None
has_subsystem(proj, sub_name) ==
    "subsystems" \in proj.yaml_dat.keys /\ sub_name \in DOMAIN proj.yaml_dat.subsystems

\* resolve_relative_subsystem(rel_subparts): the candidate path, or None
resolve_relative_subsystem(proj, rel_subparts) ==
    IF Len(rel_subparts) = 0 THEN NoneVal
    ELSE IF ~has_subsystem(proj, rel_subparts[1]) THEN NoneVal
    ELSE StrVal(path_join3(project_path(proj),
                           proj.yaml_dat.subsystems[rel_subparts[1]],
                           join("/", Tail(rel_subparts))))

(***************************************************************************)
(* DyneFinder.                                                             *)
(***************************************************************************)
prefix == "dyne"

\* yaml_search_dict[proj.namespace] = proj
RegisterRoot(dict, proj) ==
    (proj.yaml_dat.namespace :> proj) @@ dict

\* the yaml_search_dict built so far, and the exception that ended the scan
Scanned(exc, dict) == [exc |-> exc, dict |-> dict]

\* the try block of init_yaml_loader for a root whose subpop.yaml exists:
\* only KeyError is handled
TryRegister(dict, proj) ==
    IF proj.exc = "KeyError" THEN Scanned("", dict)
    ELSE IF proj.exc # "" THEN Scanned(proj.exc, dict)
    ELSE IF namespace_raises(proj) THEN Scanned("TypeError", dict)
    ELSE Scanned("", RegisterRoot(dict, proj))

\* the body of the loop of init_yaml_loader for the root with this yaml_path
ScanRoot(f, yamls, dict, yaml_path) ==
    IF path_exists(f, yaml_path)
    THEN TryRegister(dict, YAMLProjectData(yaml_path, yamls[yaml_path]))
    ELSE Scanned("", dict)

\* the loop of init_yaml_loader over the roots of the search path
RECURSIVE ScanRoots(_, _, _, _, _)
ScanRoots(f, yamls, cwd, roots, acc) ==
    IF Len(roots) = 0 \/ acc.exc # "" THEN acc
    ELSE ScanRoots(f, yamls, cwd, Tail(roots),
                   ScanRoot(f, yamls, acc.dict,
                            path_join2(realpath(cwd, roots[1]), "subpop.yaml")))

\* init_yaml_loader: the yaml_search_dict built from the PYTHONPATH of the
\* environment (env.set is FALSE when the variable is not in the environment)
init_yaml_loader(f, yamls, cwd, env) ==
    IF env.set THEN ScanRoots(f, yamls, cwd, split(env.val, ":"), Scanned("", << >>))
    ELSE Scanned("", << >>)

\* the finder object after init_yaml_loader has returned or raised scan
NewFinder(plugin_path, scan) ==
    [exc |-> scan.exc, plugin_path |-> plugin_path, yaml_search_dict |-> scan.dict]

\* DyneFinder.__init__(plugin_path): the finder, or the exception raised
DyneFinder(f, yamls, cwd, env, plugin_path) ==
    NewFinder(IF plugin_path.t = "None" THEN cwd ELSE plugin_path.s,
              init_yaml_loader(f, yamls, cwd, env))

\* find_module that compares the prefix without the separating dot
find_module_PrefixOnly(fullname) ==
    startswith(fullname, prefix)

\* find_module(fullname): TRUE when the finder returns itself as the loader
find_module(fullname) ==
    fullname = prefix \/ startswith(fullname, prefix \o ".")

\* classify with the unit file looked for before the directory
classify_FileFirst(farf, farf2) ==
    IF farf2 = "ENOTDIR" THEN "NotADirectoryError"
    ELSE IF farf2 = "file" THEN "plugin"
    ELSE IF farf = "ENOTDIR" THEN "NotADirectoryError"
    ELSE IF farf = "dir" THEN "sub"
    ELSE "None"

\* the control flow of identify_mod_type: farf is the outcome of
\* os.stat(partial_path), farf2 that of os.stat(partial_path + ".py"), which
\* is called only in the handler of the first call's FileNotFoundError
classify(farf, farf2) ==
    IF farf = "ENOTDIR" THEN "NotADirectoryError"
    ELSE IF farf = "dir" THEN "sub"
    ELSE IF farf = "file" THEN "None"
    ELSE IF farf2 = "ENOTDIR" THEN "NotADirectoryError"
    ELSE IF farf2 = "file" THEN "plugin"
    ELSE "None"

\* identify_mod_type(partial_path): "sub", "plugin", "None", or the
\* exception that escapes (os.stat fails with an error other than ENOENT)
identify_mod_type(f, partial_path) ==
    classify(os_stat(f, partial_path), os_stat(f, partial_path \o ".py"))

(***************************************************************************)
(* The interpreter state the finder works on: sys.modules, the heap of     *)
(* module objects (a module object's identity is its index), the number of *)
(* times each unit file's source has been executed, and the log of what    *)
(* was run: the executions of a unit's source, each with the names its     *)
(* namespace held when the execution started, and the calls of a unit's    *)
(* initializer, each with the arguments of the call.                       *)
(***************************************************************************)
Alloc(st, obj) == [st EXCEPT !.heap = Append(st.heap, obj)]

Event(ev, file, names) == [ev |-> ev, file |-> file, names |-> names]

\* the source of file starts executing in the namespace of obj
Executed(st, file, obj) ==
    [st EXCEPT !.execs = IF file \in DOMAIN st.execs
                         THEN [st.execs EXCEPT ![file] = @ + 1]
                         ELSE (file :> 1) @@ st.execs,
               !.log = Append(@, Event("exec", file, DOMAIN obj.attrs))]

\* init_func() is called with the arguments args
InitCalled(st, file, args) ==
    [st EXCEPT !.log = Append(@, Event("init", file, args))]

Register(st, fullname, i) ==
    [st EXCEPT !.sys_modules = (fullname :> i) @@ st.sys_modules]

\* mod = sys.modules[fullname] = obj
NewModule(st, fullname, obj) == Register(Alloc(st, obj), fullname, Len(st.heap) + 1)

\* os.path.join(self.plugin_path, sub_relpath)
default_path(finder, ns_relpath, rel_subparts) ==
    StrVal(path_join2(finder.plugin_path, ns_relpath \o "/" \o join("/", rel_subparts)))

\* partial_path_in falling back to the plugin path when the claiming
\* manifest does not declare the subsystem
partial_path_in_Fallback(finder, ns_relpath, rel_subparts) ==
    IF /\ ns_relpath \in DOMAIN finder.yaml_search_dict
       /\ Len(rel_subparts) > 0
       /\ has_subsystem(finder.yaml_search_dict[ns_relpath], rel_subparts[1])
    THEN resolve_relative_subsystem(finder.yaml_search_dict[ns_relpath], rel_subparts)
    ELSE default_path(finder, ns_relpath, rel_subparts)

\* the candidate filesystem path of load_module: from the manifest that
\* claims the namespace ns_relpath, else under the canonical plugin path
partial_path_in(finder, ns_relpath, rel_subparts) ==
    IF ns_relpath \in DOMAIN finder.yaml_search_dict
    THEN resolve_relative_subsystem(finder.yaml_search_dict[ns_relpath], rel_subparts)
    ELSE default_path(finder, ns_relpath, rel_subparts)

partial_path_of(finder, full_split) ==
    partial_path_in(finder, join(".", ListUpTo(full_split, 3)), ListFrom(full_split, 3))

\* IsRootContainer with the length test off by one
IsRootContainer_OffByOne(fullname, full_split) ==
    fullname = prefix \/ Len(full_split) < 3

\* the test of load_module for a name that denotes a root container
IsRootContainer(fullname, full_split) ==
    fullname = prefix \/ Len(full_split) < 4

LoadResult(st, exc, ret, pp, mt) ==
    [st |-> st, exc |-> exc, ret |-> ret, partial_path |-> pp, mod_type |-> mt]

\* the plugin branch of load_module, returning the module that sys.modules
\* already holds under the name
load_unit_Cached(st, fullname, partial_path, mod, src) ==
    IF fullname \in DOMAIN st.sys_modules
    THEN LoadResult(st, "", ModVal(st.sys_modules[fullname]), partial_path, "plugin")
    ELSE LoadResult(Executed(NewModule(st, fullname, exec_module(mod, src)),
                             partial_path.s \o ".py", mod),
                    "", ModVal(Len(st.heap) + 1), partial_path, "plugin")

\* the plugin branch of load_module: mod is the module object that is put
\* in sys.modules before the source src of the unit file is executed in it
load_unit(st, fullname, partial_path, mod, src) ==
    IF exec_raises(mod, src)
    THEN LoadResult(Executed(NewModule(st, fullname, mod), partial_path.s \o ".py", mod),
                    "NameError", NoneVal, partial_path, "plugin")
    ELSE LoadResult(Executed(NewModule(st, fullname, exec_module(mod, src)),
                             partial_path.s \o ".py", mod),
                    "", ModVal(Len(st.heap) + 1), partial_path, "plugin")

\* load_module from the point where mod_type is known
load_as(st, fullname, partial_path, mod_type) ==
    IF mod_type = "NotADirectoryError"
    THEN LoadResult(st, "NotADirectoryError", NoneVal, partial_path, mod_type)
    ELSE IF mod_type = "plugin"
    THEN load_unit(st, fullname, partial_path, ModuleType(fullname),
                   SourceOf(partial_path.s \o ".py"))
    ELSE IF mod_type = "sub"
    THEN LoadResult(NewModule(st, fullname,
                              SetAttr(PluginDirectory(fullname, partial_path, FinderVal),
                                      "__path__", ListVal)),
                    "", ModVal(Len(st.heap) + 1), partial_path, mod_type)
    ELSE LoadResult(st, "ModuleNotFoundError", NoneVal, partial_path, mod_type)

\* load_module from the point where partial_path is known, with the module
\* put in sys.modules before partial_path is looked at
load_at_Registered(f, st, fullname, partial_path) ==
    IF partial_path.t = "None"
    THEN LoadResult(NewModule(st, fullname, ModuleType(fullname)), "ModuleNotFoundError",
                    NoneVal, partial_path, "unresolved")
    ELSE load_as(st, fullname, partial_path, identify_mod_type(f, partial_path.s))

\* load_module from the point where partial_path is known
load_at(f, st, fullname, partial_path) ==
    IF partial_path.t = "None"
    THEN LoadResult(st, "ModuleNotFoundError", NoneVal, partial_path, "unresolved")
    ELSE load_as(st, fullname, partial_path, identify_mod_type(f, partial_path.s))

\* load_module from the point where full_split is known
load_split(finder, f, st, fullname, full_split) ==
    IF IsRootContainer(fullname, full_split)
    THEN LoadResult(NewModule(st, fullname, SetAttr(ModuleType(fullname), "__path__", ListVal)),
                    "", ModVal(Len(st.heap) + 1), NoneVal, "root")
    ELSE load_at(f, st, fullname, partial_path_of(finder, full_split))

\* DyneFinder.load_module(fullname)
load_module(finder, f, st, fullname) ==
    load_split(finder, f, st, fullname, Tail(split(fullname, ".")))

(***************************************************************************)
(* load_plugin(path, name, model): the direct loader.                      *)
(***************************************************************************)
PluginResult(st, exc, ret) == [st |-> st, exc |-> exc, ret |-> ret]

\* the configuration that a model class, started with a release, holds
ModelVal(cls, release) == [t |-> "model", id |-> 0, s |-> cls \o ":" \o release]

\* init_func(): __init__ of the unit file is called without arguments
init_func(st, path, i, func) ==
    IF func.s = "function_args" THEN PluginResult(st, "TypeError", NoneVal)
    ELSE PluginResult(InitCalled(st, path, {}), "", ModVal(i))

\* lines 59-62 of load_plugin, obj being the module after "mod.MODEL = model"
plugin_init(st, path, i, obj) ==
    IF "__init__" \in DOMAIN obj.attrs /\ obj.attrs["__init__"].t = "function"
    THEN init_func(st, path, i, obj.attrs["__init__"])
    ELSE PluginResult(st, "", ModVal(i))

\* lines 57-62 of load_plugin, the module mod being object i of st
plugin_exec(st, path, i, mod, src, model) ==
    IF exec_raises(mod, src) THEN PluginResult(Executed(st, path, mod), "NameError", NoneVal)
    ELSE plugin_init(Executed([st EXCEPT !.heap[i] = SetAttr(exec_module(mod, src), "MODEL", model)],
                              path, mod),
                     path, i, SetAttr(exec_module(mod, src), "MODEL", model))

\* mod = types.ModuleType(loader.name), which load_plugin also puts in
\* sys.modules
new_plugin_Registered(st, name) ==
    NewModule(st, "hub." \o name, ModuleType("hub." \o name))

\* mod = types.ModuleType(loader.name)
new_plugin(st, name) == Alloc(st, ModuleType("hub." \o name))

\* load_plugin from the point where the loader has opened the file at path
plugin_load(st, path, name, model) ==
    plugin_exec(new_plugin(st, name), path, Len(st.heap) + 1, ModuleType("hub." \o name),
                SourceOf(path), model)

\* load_plugin, kind being what path is
plugin_open(st, path, name, model, kind) ==
    IF kind = "ENOENT" THEN PluginResult(st, "FileNotFoundError", NoneVal)
    ELSE IF kind = "ENOTDIR" THEN PluginResult(st, "NotADirectoryError", NoneVal)
    ELSE IF kind = "dir" THEN PluginResult(st, "IsADirectoryError", NoneVal)
    ELSE plugin_load(st, path, name, model)

\* load_plugin(path, name, model)
load_plugin(f, st, path, name, model) ==
    plugin_open(st, path, name, model, os_stat(f, path))

\* getattr(self, "launch")(model, release=release) on the directory object me
launch(st, me, cls, release) ==
    IF "launch" \notin DOMAIN me.attrs THEN PluginResult(st, "AttributeError", NoneVal)
    ELSE PluginResult(st, "TypeError", NoneVal)

(***************************************************************************)
(* PluginDirectory: named access and enumeration.                          *)
(***************************************************************************)
HasAttr(obj, name) == name \in DOMAIN obj.attrs

\* the files of a listing that __iter__ takes for units
IsListedUnit(file) == endswith(file, ".py") /\ file # "__init__.py"

IterResult(st, exc, items, loaded) ==
    [st |-> st, exc |-> exc, items |-> items, loaded |-> loaded]

RECURSIVE IterFiles(_, _, _, _, _, _, _)
\* the except branch of __iter__, after importer.load_module(fullname)
\* has returned or raised r
IterLoaded(finder, f, self, files, items, loaded, fullname, r) ==
    IF r.exc # "" THEN IterResult(r.st, r.exc, items, loaded)
    ELSE IterFiles(finder, f, r.st, self, Tail(files), Append(items, r.ret),
                   loaded \cup {fullname})

\* yield self.importer.load_module(fullname)
IterLoad(finder, f, st, self, files, items, loaded, fullname) ==
    IterLoaded(finder, f, self, files, items, loaded, fullname,
               load_module(finder, f, st, fullname))

\* the body of the loop of __iter__ for the unit modname of the directory me
IterUnit(finder, f, st, self, files, items, loaded, me, modname) ==
    IF HasAttr(me, modname)
    THEN IterFiles(finder, f, st, self, Tail(files), Append(items, me.attrs[modname]), loaded)
    ELSE IF me.attrs["importer"].t # "DyneFinder"
    THEN IterResult(st, "AttributeError", items, loaded)
    ELSE IF me.attrs["__name__"].t # "str"
    THEN IterResult(st, "TypeError", items, loaded)
    ELSE IterLoad(finder, f, st, self, files, items, loaded,
                  me.attrs["__name__"].s \o "." \o modname)

\* the loop of PluginDirectory.__iter__ over the rest of the listing
IterFiles(finder, f, st, self, files, items, loaded) ==
    IF Len(files) = 0 THEN IterResult(st, "", items, loaded)
    ELSE IF ~IsListedUnit(files[1])
    THEN IterFiles(finder, f, st, self, Tail(files), items, loaded)
    ELSE IterUnit(finder, f, st, self, files, items, loaded,
                  st.heap[self], DropLast(files[1], 3))

\* __iter__ from os.listdir(self.path) on, kind being what self.path is
iter_listing(finder, f, st, self, order, kind) ==
    IF kind = "ENOENT" THEN IterResult(st, "FileNotFoundError", << >>, {})
    ELSE IF kind # "dir" THEN IterResult(st, "NotADirectoryError", << >>, {})
    ELSE IterFiles(finder, f, st, self, order, << >>, {})

\* __iter__ for a directory object whose path attribute is path
iter_path(finder, f, st, self, order, path) ==
    IF path.t = "None" THEN IterResult(st, "", << >>, {})
    ELSE IF path.t # "str" THEN IterResult(st, "TypeError", << >>, {})
    ELSE iter_listing(finder, f, st, self, order, os_stat(f, path.s))

\* PluginDirectory.__iter__, run to the end; order is the order in which
\* os.listdir returns the entries of the directory
iter(finder, f, st, self, order) ==
    iter_path(finder, f, st, self, order, st.heap[self].attrs["path"])

\* the arrangements of a set of names in a sequence
Orders(names) ==
    {o \in [1..Cardinality(names) -> names] : \A i, j \in DOMAIN o : i # j => o[i] # o[j]}

\* the orders in which os.listdir may return the entries of a directory
Listings(f, path) == Orders(os_listdir(f, path))

(***************************************************************************)
(* The import statement, as importlib runs it for a finder that offers     *)
(* find_module and load_module.                                            *)
(***************************************************************************)
rpartition_head(name) == SubSeq(name, 1, rfind(name, ".") - 1)
rpartition_tail(name) == SubSeq(name, rfind(name, ".") + 1, Len(name))

ImportResult(st, exc, ret) == [st |-> st, exc |-> exc, ret |-> ret]

\* the end of _find_and_load_unlocked: the module that load_module left in
\* sys.modules is bound as an attribute of its parent module
bind_child(st, name, parent, module) ==
    IF parent = "" THEN ImportResult(st, "", ModVal(module))
    ELSE ImportResult([st EXCEPT !.heap[st.sys_modules[parent]] =
                                    SetAttr(@, rpartition_tail(name), ModVal(module))],
                      "", ModVal(module))

\* _find_and_load_unlocked after the loader's load_module has returned or
\* raised r
loaded_by(name, parent, r) ==
    IF r.exc # "" THEN ImportResult(r.st, r.exc, NoneVal)
    ELSE bind_child(r.st, name, parent, r.st.sys_modules[name])

\* _find_and_load_unlocked for a module whose parent package is parent
find_and_load_in(finder, f, st, name, parent) ==
    IF parent # "" /\ name \in DOMAIN st.sys_modules
    THEN ImportResult(st, "", ModVal(st.sys_modules[name]))
    ELSE IF parent # "" /\ ~HasAttr(st.heap[st.sys_modules[parent]], "__path__")
    THEN ImportResult(st, "ModuleNotFoundError", NoneVal)
    ELSE IF ~find_module(name)
    THEN ImportResult(st, "ModuleNotFoundError", NoneVal)
    ELSE loaded_by(name, parent, load_module(finder, f, st, name))

\* importlib._find_and_load_unlocked, after the parent has been imported
find_and_load(finder, f, st, name) ==
    find_and_load_in(finder, f, st, name, rpartition_head(name))

\* _find_and_load_unlocked after the import of the parent has returned or
\* raised p
import_child(finder, f, name, p) ==
    IF p.exc # "" THEN p ELSE find_and_load(finder, f, p.st, name)

RECURSIVE import_module(_, _, _, _)
\* _gcd_import for a module whose parent package is parent
import_in(finder, f, st, name, parent) ==
    IF name \in DOMAIN st.sys_modules
    THEN ImportResult(st, "", ModVal(st.sys_modules[name]))
    ELSE IF parent = "" THEN find_and_load(finder, f, st, name)
    ELSE IF parent \in DOMAIN st.sys_modules THEN find_and_load(finder, f, st, name)
    ELSE import_child(finder, f, name, import_module(finder, f, st, parent))

\* importlib._gcd_import(name): import the parents, then the module
import_module(finder, f, st, name) ==
    import_in(finder, f, st, name, rpartition_head(name))

(***************************************************************************)
(* Hub (subpop/hub.py): a dict whose items are read and written as         *)
(* attributes.  The hub's state is its items (entries); the attribute      *)
(* _loop of the threading.local object that __init__ creates, per thread   *)
(* (0: the thread has no such attribute); the attribute _loop of a plain   *)
(* object that all threads share (0: not set); and asyncio's state: the    *)
(* number of event loops created so far (a loop's identity is its number)  *)
(* and, per thread, the running loop and the current loop (0: none).       *)
(***************************************************************************)
LocalVal == [t |-> "local", id |-> 0, s |-> ""]
BoxVal == [t |-> "namespace", id |-> 0, s |-> ""]
LoopVal(i) == [t |-> "loop", id |-> i, s |-> ""]
MethodVal(name) == [t |-> "method", id |-> 0, s |-> name]

\* the data descriptors of class Hub
HubProperties == {"LOOP", "THREAD_CTX"}

\* the other attributes that an instance of Hub finds on its class: the
\* methods of Hub and of dict
ClassMembers ==
    {"run_async_adapter", "get", "keys", "items", "values", "update", "pop", "clear", "copy",
     "setdefault"}

\* the state before Hub() is called
NoHub == [exc |-> "unconstructed", entries |-> << >>]

HubResult(exc, ret, hub, ctx, box, aio, where) ==
    [exc |-> exc, ret |-> ret, hub |-> hub, ctx |-> ctx, box |-> box, aio |-> aio,
     where |-> where]

\* Hub.__setattr__(key, val): self[key] = val
hub_setattr(hub, key, val) == [hub EXCEPT !.entries = (key :> val) @@ hub.entries]

\* Hub.__getattr__(name), called from caller
hub_getattr_miss(hub, name, ctx, box, aio, caller) ==
    IF name \notin DOMAIN hub.entries
    THEN HubResult("AttributeError", NoneVal, hub, ctx, box, aio, caller)
    ELSE HubResult("", hub.entries[name], hub, ctx, box, aio, "")

\* getattr(tc, "_loop", None) for the object tc that self._thread_ctx is
attr_loop(tc, ctx, box, thread) ==
    IF tc.t = "local" THEN ctx[thread]
    ELSE IF tc.t = "namespace" THEN box
    ELSE 0

\* loop = self._thread_ctx._loop = asyncio.new_event_loop()
new_loop(hub, tc, ctx, box, aio, thread) ==
    IF tc.t = "local"
    THEN HubResult("", LoopVal(aio.loops + 1), hub, [ctx EXCEPT ![thread] = aio.loops + 1], box,
                   [aio EXCEPT !.loops = @ + 1], "")
    ELSE IF tc.t = "namespace"
    THEN HubResult("", LoopVal(aio.loops + 1), hub, ctx, aio.loops + 1,
                   [aio EXCEPT !.loops = @ + 1], "")
    ELSE HubResult("AttributeError", NoneVal, hub, ctx, box, [aio EXCEPT !.loops = @ + 1], "")

\* the body of the property LOOP, loop being getattr(tc, "_loop", None)
loop_of(hub, tc, ctx, box, aio, thread, loop) ==
    IF loop = 0 THEN new_loop(hub, tc, ctx, box, aio, thread)
    ELSE HubResult("", LoopVal(loop), hub, ctx, box, aio, "")

\* the property LOOP, after self._thread_ctx has returned or raised r
LOOP_with(r, thread) ==
    IF r.exc # "" THEN r
    ELSE loop_of(r.hub, r.ret, r.ctx, r.box, r.aio, thread, attr_loop(r.ret, r.ctx, r.box, thread))

\* Hub.LOOP, read in a thread by code of caller
LOOP(hub, ctx, box, aio, thread, caller) ==
    LOOP_with(hub_getattr_miss(hub, "_thread_ctx", ctx, box, aio, caller), thread)

\* Hub.THREAD_CTX
THREAD_CTX(hub, ctx, box, aio, caller) ==
    hub_getattr_miss(hub, "_thread_ctx", ctx, box, aio, caller)

\* the attribute lookup hub.<name>: a property of the class, else another
\* member of the class, else __getattr__
hub_getattr(hub, ctx, box, aio, thread, name, caller) ==
    IF name = "LOOP" THEN LOOP(hub, ctx, box, aio, thread, caller)
    ELSE IF name = "THREAD_CTX" THEN THREAD_CTX(hub, ctx, box, aio, caller)
    ELSE IF name \in ClassMembers THEN HubResult("", MethodVal(name), hub, ctx, box, aio, "")
    ELSE hub_getattr_miss(hub, name, ctx, box, aio, caller)

\* the end of Hub.__init__: the finder is appended to sys.meta_path
install_finder(sys) ==
    IF ~sys.frozen /\ Len(sys.meta_path) > 0 /\ sys.meta_path[Len(sys.meta_path)] # "DyneFinder"
    THEN [sys EXCEPT !.meta_path = Append(@, "DyneFinder")]
    ELSE sys

\* lines 158-162 of Hub.__init__: the running loop of the thread, or a new
\* loop that becomes the current loop of the thread
init_loop(ctx, aio, thread) ==
    IF aio.running[thread] # 0
    THEN [ctx |-> [ctx EXCEPT ![thread] = aio.running[thread]], aio |-> aio]
    ELSE [ctx |-> [ctx EXCEPT ![thread] = aio.loops + 1],
          aio |-> [aio EXCEPT !.loops = @ + 1, !.current[thread] = aio.loops + 1]]

\* the parameters of DyneFinder.__init__, and the keyword arguments with
\* which Hub.__init__ calls DyneFinder
DyneFinderParams == {"plugin_path"}
HubFinderKwargs == {"hub"}

\* a call raises TypeError: it passes a keyword the function does not have
unexpected_keyword(params, kwargs) == kwargs \ params # {}

\* Hub.__init__ from "if finder is None" on; given is TRUE when a finder
\* was passed, else the hub makes its own
init_finder(hub, sys, given) ==
    IF ~given /\ unexpected_keyword(DyneFinderParams, HubFinderKwargs)
    THEN [hub |-> [hub EXCEPT !.exc = "TypeError"], sys |-> sys]
    ELSE [hub |-> hub, sys |-> install_finder(sys)]

\* the items of the hub after "self._thread_ctx = threading.local()"
init_entries == [exc |-> "", entries |-> ("_thread_ctx" :> LocalVal)]

(***************************************************************************)
(* The world the finder runs in.  The process runs in /P, which is also    *)
(* the canonical plugin path; /A and /B are project roots that PYTHONPATH  *)
(* may name.  The namespace is a.b.c, with the subsystem s.                *)
(***************************************************************************)
CWD == "/P"
SubDir == "/P/a.b.c/s"

Skeleton ==
    [p \in {"/P", "/P/a.b.c", SubDir, "/A", "/A/sa", "/B", "/B/sb"} |-> "dir"]
    @@ [p \in {"/A/sa/f.py", "/B/sb/f.py", "/B/sb/g.py"} |-> "file"]

\* what a subsystem directory may contain: unit files, an init unit, a
\* package marker, a unit whose name is an attribute of PluginDirectory, and
\* an entry f without extension next to the unit file f.py
EntryUniverse ==
    {<<"f.py", "file">>, <<"g.py", "file">>, <<"init.py", "file">>, <<"__init__.py", "file">>,
     <<"path.py", "file">>, <<"f", "file">>, <<"f", "dir">>}

EntrySets ==
    {E \in SUBSET EntryUniverse :
        /\ Cardinality(E) <= MaxFiles
        /\ \A a, b \in E : a[1] = b[1] => a = b}

Populate(dir, E) ==
    [p \in {path_join2(dir, e[1]) : e \in E} |->
        (CHOOSE e \in E : path_join2(dir, e[1]) = p)[2]]

\* the manifests a root may carry (Absent: the root has no subpop.yaml)
Absent == [t |-> "absent", keys |-> {}, namespace |-> "", subsystems |-> NoSubs, val |-> ""]

ManifestsA ==
    {Absent,
     YamlNone,
     YamlMap({"namespace", "subsystems"}, "a.b.c", "u" :> "sa"),
     YamlMap({"namespace", "subsystems"}, "a.b.c", "s" :> "sa")}

ManifestsB ==
    {YamlMap({"namespace", "subsystems"}, "a.b.c", "s" :> "sb"),
     YamlMap({"namespace", "subsystems"}, "x.y.z", "s" :> "sb")}

Environs ==
    {[set |-> FALSE, val |-> ""]}
    \cup {[set |-> TRUE, val |-> v] : v \in {"/A", "/B", "/A:/B", "/B:/A/"}}

ManifestFiles(ya, yb) ==
    [p \in (IF ya.t = "absent" THEN {} ELSE {"/A/subpop.yaml"})
           \cup (IF yb.t = "absent" THEN {} ELSE {"/B/subpop.yaml"}) |-> "file"]

\* the names the operations are tried on
LoadNames == {"dyne", "dyne.a.b.c", "dyne.a.b.c.s", "dyne.a.b.c.s.f"}

ImportNames == {"dyne.a.b.c.s.f", "dyne.a.b.c.s.path"}

AttrNames == {"f", "path"}

NewUnits == {"h"}

VARIABLES fs, yamls, environ, finder, st, returned, accessed, last, nops, newfiles,
          hub, thread_ctx, box, aio, sys, got, tasks, search, clients

vars == <<fs, yamls, environ, finder, st, returned, accessed, last, nops, newfiles,
          hub, thread_ctx, box, aio, sys, got, tasks, search, clients>>

\* the state of the finder and of the interpreter's modules
dynevars == <<fs, yamls, environ, finder, st, returned, accessed, newfiles>>

\* the state of the hub, of asyncio and of sys.meta_path
hubvars == <<hub, thread_ctx, box, aio, sys, got>>

\* the threads of the process
Threads == 1..MaxThreads

\* the enumerations that the threads run, the search for the project
\* manifest, and the HubClient class with its instances
othervars == <<tasks, search, clients>>

\* a thread that is not enumerating a directory
NoTask == [pc |-> "idle", self |-> 0, files |-> << >>, held |-> << >>, seen |-> 0]

\* no call of _find_subpop_yaml has been made
NoSearch ==
    [pc |-> "idle", start_path |-> "", cur_path |-> "", subpop_yaml |-> "", exc |-> "",
     steps |-> 0]

\* no BreezyMessage
NoMsg == [msg_type |-> "", service |-> "", action |-> "", msg_id |-> ""]

\* class HubClient as the class statement leaves it, without instances: the
\* class attributes in_flight_messages and msg_id_counter, the attributes
\* that the instances have set on themselves, the futures created so far,
\* and the last call made on an instance with what it returned
NoClients ==
    [in_flight_messages |-> << >>, msg_id_counter |-> 0, instances |-> << >>,
     futures |-> << >>, last |-> [op |-> "", self |-> 0, msg |-> NoMsg, fut |-> 0]]

\* no thread enumerates, no search runs, and no HubClient exists
Quiet ==
    /\ tasks = [t \in Threads |-> NoTask]
    /\ search = NoSearch
    /\ clients = NoClients

\* no Hub has been constructed, and no event loop exists
NoHubYet ==
    /\ hub = NoHub
    /\ thread_ctx = [t \in Threads |-> 0]
    /\ box = 0
    /\ aio = [loops |-> 0, running |-> [t \in Threads |-> 0], current |-> [t \in Threads |-> 0]]
    /\ sys = [meta_path |-> <<"PathFinder">>, frozen |-> FALSE]
    /\ got = {}

NoLast ==
    [op |-> "", arg |-> "", self |-> 0, exc |-> "", ret |-> NoneVal, items |-> << >>,
     names |-> << >>, partial_path |-> NoneVal, mod_type |-> "", loaded |-> {},
     executed |-> {}, scanned |-> FALSE, first |-> FALSE, thread |-> 0, where |-> "",
     caller |-> "", events |-> << >>]

\* the state after DyneFinder(plugin_path) has been constructed: either the
\* subsystem directory of the plugin path holds any entries and no project
\* root is searched, or the project roots and their manifests are any and
\* the directory holds one unit
Init ==
    /\ \E E \in EntrySets, ya \in ManifestsA, yb \in ManifestsB, env \in Environs,
          plugin_path \in {NoneVal, StrVal("/P")} :
        /\ \/ ~env.set /\ ya.t = "absent" /\ yb.namespace = "a.b.c"
           \/ E = {<<"f.py", "file">>}
        /\ fs = Populate(SubDir, E) @@ ManifestFiles(ya, yb) @@ Skeleton
        /\ yamls = ("/A/subpop.yaml" :> ya) @@ ("/B/subpop.yaml" :> yb)
        /\ environ = env
        /\ finder = DyneFinder(fs, yamls, CWD, env, plugin_path)
    /\ st = [sys_modules |-> << >>, heap |-> << >>, execs |-> << >>, log |-> << >>]
    /\ returned = {}
    /\ accessed = {}
    /\ last = NoLast
    /\ nops = 0
    /\ newfiles = 0
    /\ NoHubYet
    /\ Quiet

Directories == {i \in 1..Len(st.heap) : st.heap[i].cls = "PluginDirectory"}

\* how often the source of a file had been executed in the state s
ExecsOf(s, file) == IF file \in DOMAIN s.execs THEN s.execs[file] ELSE 0

\* the unit files whose source an operation from state s to state t executed
ExecutedBetween(s, t) ==
    {file \in DOMAIN t.execs : file \notin DOMAIN s.execs \/ t.execs[file] > s.execs[file]}

NameOf(i) == st.heap[i].attrs["__name__"].s

\* the record of a call that returned or raised r
Called(op, fullname, r) ==
    /\ st' = r.st
    /\ returned' = IF r.exc = "" THEN returned \cup {<<fullname, r.ret.id>>} ELSE returned
    /\ last' = [NoLast EXCEPT !.op = op, !.arg = fullname, !.exc = r.exc, !.ret = r.ret,
                              !.partial_path = IF op = "load_module" THEN r.partial_path
                                               ELSE NoneVal,
                              !.mod_type = IF op = "load_module" THEN r.mod_type ELSE "",
                              !.executed = ExecutedBetween(st, r.st),
                              !.events = SubSeq(r.st.log, Len(st.log) + 1, Len(r.st.log))]

\* a direct call of finder.load_module(fullname)
LoadModule(fullname) ==
    /\ nops < MaxOps
    /\ Called("load_module", fullname, load_module(finder, fs, st, fullname))
    /\ nops' = nops + 1
    /\ UNCHANGED <<fs, yamls, environ, finder, accessed, newfiles>>
    /\ UNCHANGED hubvars
    /\ UNCHANGED othervars

\* the statement "import fullname"
Import(fullname) ==
    /\ nops < MaxOps
    /\ Called("import", fullname, import_module(finder, fs, st, fullname))
    /\ nops' = nops + 1
    /\ UNCHANGED <<fs, yamls, environ, finder, accessed, newfiles>>
    /\ UNCHANGED hubvars
    /\ UNCHANGED othervars

\* the record of getattr(self, name) on the directory object me
Got(self, name, me, found) ==
    /\ returned' = IF found /\ IsModule(me.attrs[name])
                   THEN returned \cup {<<NameOf(self) \o "." \o name, me.attrs[name].id>>}
                   ELSE returned
    /\ last' = [NoLast EXCEPT !.op = "getattr", !.arg = name, !.self = self,
                              !.exc = IF found THEN "" ELSE "AttributeError",
                              !.ret = IF found THEN me.attrs[name] ELSE NoneVal,
                              !.first = self \notin accessed]

\* named access on a subsystem directory: getattr(self, name)
GetAttr(self, name) ==
    /\ nops < MaxOps
    /\ self \in Directories
    /\ Got(self, name, st.heap[self], HasAttr(st.heap[self], name))
    /\ accessed' = accessed \cup {self}
    /\ nops' = nops + 1
    /\ UNCHANGED <<fs, yamls, environ, finder, st, newfiles>>
    /\ UNCHANGED hubvars
    /\ UNCHANGED othervars

\* the names of the first n units of a listing
FirstUnits(units, n) == [i \in 1..n |-> DropLast(units[i], 3)]

\* the unit names behind the items of an enumeration, in order
YieldedNames(order, n) == FirstUnits(SelectSeq(order, IsListedUnit), n)

\* the record of an enumeration that yielded or raised r
Iterated(self, scanned, r, names) ==
    /\ st' = r.st
    /\ returned' = returned \cup
          {<<NameOf(self) \o "." \o names[i], r.items[i].id>> :
              i \in {j \in 1..Len(r.items) : IsModule(r.items[j])}}
    /\ last' = [NoLast EXCEPT !.op = "iter", !.self = self, !.exc = r.exc,
                              !.items = r.items, !.names = names,
                              !.loaded = r.loaded,
                              !.executed = ExecutedBetween(st, r.st),
                              !.scanned = scanned,
                              !.first = self \notin accessed]

\* list(self) when os.listdir returns the entries in this order
IterateIn(self, scanned, order, r) ==
    Iterated(self, scanned, r, YieldedNames(order, Len(r.items)))

\* list(self) for a directory object whose path attribute is path
IterateAt(self, path) ==
    \E order \in (IF path.t = "str" THEN Listings(fs, path.s) ELSE {<< >>}) :
        IterateIn(self, path.t = "str", order, iter(finder, fs, st, self, order))

\* enumeration of a subsystem directory: list(self)
Iterate(self) ==
    /\ nops < MaxOps
    /\ self \in Directories
    /\ IterateAt(self, st.heap[self].attrs["path"])
    /\ accessed' = accessed \cup {self}
    /\ nops' = nops + 1
    /\ UNCHANGED <<fs, yamls, environ, finder, newfiles>>
    /\ UNCHANGED hubvars
    /\ UNCHANGED othervars

\* a unit file appears in the subsystem directory of the plugin path
AddFile(name) ==
    /\ nops < MaxOps
    /\ newfiles < MaxNewFiles
    /\ path_join2(SubDir, name \o ".py") \notin DOMAIN fs
    /\ fs' = (path_join2(SubDir, name \o ".py") :> "file") @@ fs
    /\ newfiles' = newfiles + 1
    /\ nops' = nops + 1
    /\ last' = [NoLast EXCEPT !.op = "addfile", !.arg = name]
    /\ UNCHANGED <<yamls, environ, finder, st, returned, accessed>>
    /\ UNCHANGED hubvars
    /\ UNCHANGED othervars

Next ==
    \/ \E fullname \in LoadNames : LoadModule(fullname)
    \/ \E fullname \in ImportNames : Import(fullname)
    \/ \E self \in 1..Len(st.heap), name \in AttrNames : GetAttr(self, name)
    \/ \E self \in 1..Len(st.heap) : Iterate(self)
    \/ \E name \in NewUnits : AddFile(name)

Spec == Init /\ [][Next]_vars

(***************************************************************************)
(* The construction of the finder over roots whose subpop.yaml holds any   *)
(* document, well-formed or not.                                           *)
(***************************************************************************)
\* the documents of a subpop.yaml that is not a well-formed manifest: no
\* namespace key, a list without and with the item "namespace", a string
\* without and with the text "namespace", a number, and text that is not YAML
Malformed ==
    {YamlNone,
     YamlMap({"subsystems"}, "", "s" :> "sa"),
     YamlList({"x"}),
     YamlList({"namespace"}),
     YamlStr("text"),
     YamlStr("my namespace"),
     YamlInt,
     YamlInvalid}

\* the state of a process that has not constructed its finder
NoFinder == [exc |-> "unconstructed", plugin_path |-> "", yaml_search_dict |-> << >>]

PluginPaths == {NoneVal, StrVal("/P")}

InitStore ==
    /\ \E ya \in ManifestsA \cup Malformed, yb \in ManifestsB \cup Malformed \cup {Absent},
          env \in Environs :
        /\ fs = Populate(SubDir, {<<"f.py", "file">>}) @@ ManifestFiles(ya, yb) @@ Skeleton
        /\ yamls = ("/A/subpop.yaml" :> ya) @@ ("/B/subpop.yaml" :> yb)
        /\ environ = env
    /\ finder = NoFinder
    /\ st = [sys_modules |-> << >>, heap |-> << >>, execs |-> << >>, log |-> << >>]
    /\ returned = {}
    /\ accessed = {}
    /\ last = NoLast
    /\ nops = 0
    /\ newfiles = 0
    /\ NoHubYet
    /\ Quiet

\* finder = DyneFinder(plugin_path)
Construct(plugin_path) ==
    /\ finder = NoFinder
    /\ finder' = DyneFinder(fs, yamls, CWD, environ, plugin_path)
    /\ last' = [NoLast EXCEPT !.op = "DyneFinder", !.arg = plugin_path.s, !.exc = finder'.exc]
    /\ nops' = nops + 1
    /\ UNCHANGED <<fs, yamls, environ, st, returned, accessed, newfiles>>
    /\ UNCHANGED hubvars
    /\ UNCHANGED othervars

NextStore == \E plugin_path \in PluginPaths : Construct(plugin_path)

SpecStore == InitStore /\ [][NextStore]_vars

(***************************************************************************)
(* A hub used from the threads of a process: it is constructed by one      *)
(* thread, with or without a finder, and then its attributes are written   *)
(* and read, by any thread and in any order.                               *)
(***************************************************************************)
\* the names that are written and read on the hub: two names that nothing
\* else uses, a method of dict, the two properties, and the name under
\* which __init__ keeps the thread-local storage
HubKeys == {"sub", "nope", "get", "LOOP", "THREAD_CTX", "_thread_ctx"}

\* the values that are written: two values without attributes of their own,
\* and a plain object that takes attributes
HubValues == {ObjVal("v"), ObjVal("w"), BoxVal}

\* the places (file and function) of the code that reads the hub
Callers == {"/app/main.py, in run()", "/app/job.py, in work()"}

\* the loops that run in the threads of R before the hub is constructed:
\* the k-th thread of R runs loop k
RunningIn(R) == [t \in Threads |-> IF t \in R THEN Cardinality({u \in R : u <= t}) ELSE 0]

InitHub ==
    /\ fs = Populate(SubDir, {<<"f.py", "file">>}) @@ Skeleton
    /\ yamls = ("/A/subpop.yaml" :> Absent) @@ ("/B/subpop.yaml" :> Absent)
    /\ environ = [set |-> FALSE, val |-> ""]
    /\ finder = DyneFinder(fs, yamls, CWD, environ, NoneVal)
    /\ st = [sys_modules |-> << >>, heap |-> << >>, execs |-> << >>, log |-> << >>]
    /\ returned = {}
    /\ accessed = {}
    /\ last = NoLast
    /\ nops = 0
    /\ newfiles = 0
    /\ hub = NoHub
    /\ thread_ctx = [t \in Threads |-> 0]
    /\ box = 0
    /\ \E R \in SUBSET Threads :
          aio = [loops |-> Cardinality(R), running |-> RunningIn(R),
                 current |-> RunningIn(R)]
    /\ \E meta_path \in {<< >>, <<"PathFinder">>, <<"PathFinder", "DyneFinder">>},
          frozen \in BOOLEAN :
          sys = [meta_path |-> meta_path, frozen |-> frozen]
    /\ got = {}
    /\ Quiet

\* the state after Hub.__init__ has run lines 157-162 (l) and the rest (r)
HubMade(thread, given, l, r) ==
    /\ hub' = r.hub
    /\ sys' = r.sys
    /\ thread_ctx' = l.ctx
    /\ aio' = l.aio
    /\ last' = [NoLast EXCEPT !.op = "Hub", !.arg = IF given THEN "finder" ELSE "",
                              !.thread = thread, !.exc = r.hub.exc]

\* hub = Hub(finder) or hub = Hub(), called in a thread
HubInit(thread, given) ==
    /\ nops < MaxHubOps
    /\ hub = NoHub
    /\ HubMade(thread, given, init_loop(thread_ctx, aio, thread),
               init_finder(init_entries, sys, given))
    /\ nops' = nops + 1
    /\ UNCHANGED <<box, got>>
    /\ UNCHANGED dynevars
    /\ UNCHANGED othervars

\* hub.<key> = val
HubSet(key, val) ==
    /\ nops < MaxHubOps
    /\ hub.exc = ""
    /\ hub' = hub_setattr(hub, key, val)
    /\ last' = [NoLast EXCEPT !.op = "set", !.arg = key, !.ret = val]
    /\ nops' = nops + 1
    /\ UNCHANGED <<thread_ctx, box, aio, sys, got>>
    /\ UNCHANGED dynevars
    /\ UNCHANGED othervars

\* the state after the attribute lookup has returned or raised r
HubRead(thread, key, caller, r) ==
    /\ hub' = r.hub
    /\ thread_ctx' = r.ctx
    /\ box' = r.box
    /\ aio' = r.aio
    /\ got' = IF key = "LOOP" THEN got \cup {<<thread, r.ret.id>>} ELSE got
    /\ last' = [NoLast EXCEPT !.op = "get", !.arg = key, !.thread = thread, !.exc = r.exc,
                              !.ret = r.ret, !.where = r.where, !.caller = caller]

\* hub.<key>, read in a thread by code of caller
HubGet(thread, key, caller) ==
    /\ nops < MaxHubOps
    /\ hub.exc = ""
    /\ HubRead(thread, key, caller, hub_getattr(hub, thread_ctx, box, aio, thread, key, caller))
    /\ nops' = nops + 1
    /\ UNCHANGED sys
    /\ UNCHANGED dynevars
    /\ UNCHANGED othervars

NextHub ==
    \/ \E thread \in Threads, given \in BOOLEAN : HubInit(thread, given)
    \/ \E key \in HubKeys, val \in HubValues : HubSet(key, val)
    \/ \E thread \in Threads, key \in HubKeys, caller \in Callers : HubGet(thread, key, caller)

SpecHub == InitHub /\ [][NextHub]_vars

(***************************************************************************)
(* A process that has run Hub(finder), so that its finder is on            *)
(* sys.meta_path, and then loads unit files with load_plugin and through   *)
(* the finder, and launches a subsystem it has imported.  The subsystem    *)
(* directory of the plugin path holds unit files of every kind.            *)
(***************************************************************************)
UnitFiles ==
    {"init.py", "needs.py", "initval.py", "usehub.py", "usemodel.py", "first.py", "launch.py"}

\* the paths load_plugin is called with: the unit files that the finder
\* does not load in this process, the directory, and a file that is missing
PluginFiles ==
    {path_join2(SubDir, file) : file \in UnitFiles \ {"launch.py"}}
    \cup {SubDir, path_join2(SubDir, "gone.py")}

Models == {NoneVal, ObjVal("MyModel")}

Releases == {"1.4-release"}

LoadedNames == {"dyne.a.b.c.s.init", "dyne.a.b.c.s.usehub"}

ImportedNames == {"dyne.a.b.c.s", "dyne.a.b.c.s.launch", "dyne.a.b.c.s.first"}

LaunchAttrs == {"first", "launch"}

InitLoad ==
    /\ fs = Populate(SubDir, {<<file, "file">> : file \in UnitFiles}) @@ Skeleton
    /\ yamls = ("/A/subpop.yaml" :> Absent) @@ ("/B/subpop.yaml" :> Absent)
    /\ environ = [set |-> FALSE, val |-> ""]
    /\ finder = DyneFinder(fs, yamls, CWD, environ, NoneVal)
    /\ st = [sys_modules |-> << >>, heap |-> << >>, execs |-> << >>, log |-> << >>]
    /\ returned = {}
    /\ accessed = {}
    /\ last = NoLast
    /\ nops = 0
    /\ newfiles = 0
    /\ hub = init_entries
    /\ thread_ctx = init_loop([t \in Threads |-> 0],
                              [loops |-> 0, running |-> [t \in Threads |-> 0],
                               current |-> [t \in Threads |-> 0]], 1).ctx
    /\ aio = init_loop([t \in Threads |-> 0],
                       [loops |-> 0, running |-> [t \in Threads |-> 0],
                        current |-> [t \in Threads |-> 0]], 1).aio
    /\ box = 0
    /\ sys = install_finder([meta_path |-> <<"PathFinder">>, frozen |-> FALSE])
    /\ got = {}
    /\ Quiet

\* the record of a call of load_plugin that returned or raised r
PluginLoaded(path, model, r) ==
    /\ st' = r.st
    /\ returned' = IF r.exc = "" THEN returned \cup {<<path, r.ret.id>>} ELSE returned
    /\ last' = [NoLast EXCEPT !.op = "load_plugin", !.arg = path, !.exc = r.exc, !.ret = r.ret,
                              !.executed = ExecutedBetween(st, r.st),
                              !.events = SubSeq(r.st.log, Len(st.log) + 1, Len(r.st.log))]

\* mod = load_plugin(path, name, model)
LoadPlugin(path, name, model) ==
    /\ nops < MaxOps
    /\ PluginLoaded(path, model, load_plugin(fs, st, path, name, model))
    /\ nops' = nops + 1
    /\ UNCHANGED <<fs, yamls, environ, finder, accessed, newfiles>>
    /\ UNCHANGED hubvars
    /\ UNCHANGED othervars

\* the record of a call of launch that returned or raised r
Launched(self, cls, release, r) ==
    /\ st' = r.st
    /\ last' = [NoLast EXCEPT !.op = "launch", !.arg = release, !.self = self, !.exc = r.exc,
                              !.ret = ModelVal(cls, release),
                              !.first = self \notin accessed]

\* await self.launch(cls, release=release) on a subsystem directory
Launch(self, cls, release) ==
    /\ nops < MaxOps
    /\ self \in Directories
    /\ Launched(self, cls, release, launch(st, st.heap[self], cls, release))
    /\ accessed' = accessed \cup {self}
    /\ nops' = nops + 1
    /\ UNCHANGED <<fs, yamls, environ, finder, returned, newfiles>>
    /\ UNCHANGED hubvars
    /\ UNCHANGED othervars

NextLoad ==
    \/ \E path \in PluginFiles, model \in Models : LoadPlugin(path, "u", model)
    \/ \E fullname \in LoadedNames : LoadModule(fullname)
    \/ \E fullname \in ImportedNames : Import(fullname)
    \/ \E self \in 1..Len(st.heap), name \in LaunchAttrs : GetAttr(self, name)
    \/ \E self \in 1..Len(st.heap), release \in Releases : Launch(self, "MyModel", release)

SpecLoad == InitLoad /\ [][NextLoad]_vars

(***************************************************************************)
(* Threads that enumerate one subsystem directory at the same time.  Each  *)
(* thread runs "for unit in directory": the listing, then for every unit   *)
(* file the lookup on the directory and, when that fails, the load.  The   *)
(* threads are switched between these steps.                               *)
(***************************************************************************)
RaceFiles == {"f.py", "g.py"}

\* an interpreter that has loaded no module
NoModules == [sys_modules |-> << >>, heap |-> << >>, execs |-> << >>, log |-> << >>]

\* what a thread holds for a unit: the value, whether the thread loaded it
\* itself, and how often the unit's source had been executed when the thread
\* looked the unit up
Held(name, ret, loaded, seen) == [name |-> name, ret |-> ret, loaded |-> loaded, seen |-> seen]

InitRace ==
    /\ fs = Populate(SubDir, {<<file, "file">> : file \in RaceFiles}) @@ Skeleton
    /\ yamls = ("/A/subpop.yaml" :> Absent) @@ ("/B/subpop.yaml" :> Absent)
    /\ environ = [set |-> FALSE, val |-> ""]
    /\ finder = DyneFinder(fs, yamls, CWD, environ, NoneVal)
    /\ \E imported \in BOOLEAN :
          st = IF imported THEN import_module(finder, fs, NoModules, "dyne.a.b.c.s.f").st
               ELSE load_module(finder, fs, NoModules, "dyne.a.b.c.s").st
    /\ returned = {}
    /\ accessed = {}
    /\ last = NoLast
    /\ nops = 0
    /\ newfiles = 0
    /\ NoHubYet
    /\ Quiet

\* the thread's enumeration after os.listdir(self.path) has failed, or has
\* returned the entries in this order
Listed(thread, self, kind, order) ==
    tasks' = [tasks EXCEPT ![thread] =
                 IF kind # "dir" THEN [NoTask EXCEPT !.pc = "failed", !.self = self]
                 ELSE [NoTask EXCEPT !.pc = "next", !.self = self, !.files = order]]

\* a thread starts iter(self): os.listdir(self.path)
IterBegin(thread, self) ==
    /\ tasks[thread].pc = "idle"
    /\ self \in Directories
    /\ st.heap[self].attrs["path"].t = "str"
    /\ \E order \in Listings(fs, st.heap[self].attrs["path"].s) :
          Listed(thread, self, os_stat(fs, st.heap[self].attrs["path"].s), order)
    /\ UNCHANGED <<search, clients, nops, last>>
    /\ UNCHANGED dynevars
    /\ UNCHANGED hubvars

\* the thread's enumeration after getattr(self, modname) on the directory me
Looked(task, me, file, modname) ==
    IF ~IsListedUnit(file) THEN [task EXCEPT !.files = Tail(@)]
    ELSE IF HasAttr(me, modname)
    THEN [task EXCEPT !.files = Tail(@),
                      !.held = Append(@, Held(modname, me.attrs[modname], FALSE,
                                              ExecsOf(st, path_join2(me.attrs["path"].s, file))))]
    ELSE [task EXCEPT !.pc = "load",
                      !.seen = ExecsOf(st, path_join2(me.attrs["path"].s, file))]

\* a thread takes the next file of its listing: yield getattr(self, modname)
IterNext(thread) ==
    /\ tasks[thread].pc = "next"
    /\ tasks' = [tasks EXCEPT ![thread] =
                    IF Len(@.files) = 0 THEN [@ EXCEPT !.pc = "done"]
                    ELSE Looked(@, st.heap[@.self], @.files[1], DropLast(@.files[1], 3))]
    /\ UNCHANGED <<search, clients, nops, last>>
    /\ UNCHANGED dynevars
    /\ UNCHANGED hubvars

\* the thread's enumeration after importer.load_module has returned or
\* raised r
TaskLoaded(thread, task, modname, r) ==
    /\ st' = r.st
    /\ tasks' = [tasks EXCEPT ![thread] =
                    IF r.exc # "" THEN [task EXCEPT !.pc = "failed"]
                    ELSE [task EXCEPT !.pc = "next", !.files = Tail(@),
                                      !.held = Append(@, Held(modname, r.ret, TRUE, task.seen))]]

\* a thread that did not find the unit on the directory loads it:
\* yield self.importer.load_module(self.__name__ + "." + modname)
IterLoadUnit(thread) ==
    /\ tasks[thread].pc = "load"
    /\ TaskLoaded(thread, tasks[thread], DropLast(tasks[thread].files[1], 3),
                  load_module(finder, fs, st,
                              NameOf(tasks[thread].self) \o "."
                                  \o DropLast(tasks[thread].files[1], 3)))
    /\ UNCHANGED <<fs, yamls, environ, finder, returned, accessed, newfiles>>
    /\ UNCHANGED <<search, clients, nops, last>>
    /\ UNCHANGED hubvars

NextRace ==
    \/ \E thread \in Threads, self \in 1..Len(st.heap) : IterBegin(thread, self)
    \/ \E thread \in Threads : IterNext(thread)
    \/ \E thread \in Threads : IterLoadUnit(thread)

SpecRace == InitRace /\ [][NextRace]_vars

(***************************************************************************)
(* The finder on sys.meta_path: importlib asks find_module(fullname) for   *)
(* every name that is not in sys.modules, among them names outside the     *)
(* dyne namespace that no other finder knows.                              *)
(***************************************************************************)
FindNames == {"dyne", "dyne.a.b.c.s.f", "dyne.", "dynex", "dynex.a", "dyn", "Dyne", "xdyne.a"}

\* a direct call of finder.find_module(fullname)
FindModule(fullname) ==
    /\ nops < MaxOps
    /\ last' = [NoLast EXCEPT !.op = "find_module", !.arg = fullname,
                              !.ret = IF find_module(fullname) THEN FinderVal ELSE NoneVal]
    /\ nops' = nops + 1
    /\ UNCHANGED dynevars
    /\ UNCHANGED hubvars
    /\ UNCHANGED othervars

NextFind ==
    \/ \E fullname \in FindNames : FindModule(fullname)
    \/ \E fullname \in FindNames : Import(fullname)

SpecFind == Init /\ [][NextFind]_vars

(***************************************************************************)
(* HubClient (subpop/zmq/client.py): requests sent with async_send wait in *)
(* in_flight_messages for the RESPONSE that carries their msg_id.  The     *)
(* dict and msg_id_counter are attributes of the class; an instance reads  *)
(* them through the class until it assigns an attribute of its own.  A     *)
(* future is pending, done with a result, or cancelled by the awaiter      *)
(* whose asyncio.wait_for timed out.  The time that async_send stores      *)
(* with the future is never read and is left out.                          *)
(***************************************************************************)
\* str(n) for a non-negative int
RECURSIVE str(_)
str(n) ==
    IF n < 10 THEN SubSeq("0123456789", n + 1, n + 1)
    ELSE str(n \div 10) \o str(n % 10)

\* self.msg_id_counter: the attribute of the instance if it has one, else
\* that of the class
msg_id_counter(c, self) ==
    IF c.instances[self].own THEN c.instances[self].msg_id_counter ELSE c.msg_id_counter

\* asyncio.Future(), created for the request msg_obj of the client self
Future(self, msg_obj) ==
    [state |-> "pending", result |-> NoMsg, self |-> self, msg_obj |-> msg_obj]

\* fut.set_result(msg_obj): InvalidStateError leaves a future that is not
\* pending as it is
set_result(fut, msg_obj) ==
    IF fut.state = "pending" THEN [fut EXCEPT !.state = "done", !.result = msg_obj]
    ELSE fut

\* dict.pop(key) for a key of the dict
pop(dict, key) == [k \in DOMAIN dict \ {key} |-> dict[k]]

\* async_send(msg_obj) on the client self
async_send(c, self, msg_obj) ==
    [c EXCEPT !.instances[self] = [own |-> TRUE, msg_id_counter |-> msg_id_counter(c, self) + 1],
              !.futures = Append(@, Future(self, [msg_obj EXCEPT
                                                      !.msg_id = str(msg_id_counter(c, self))])),
              !.in_flight_messages = (str(msg_id_counter(c, self)) :> Len(c.futures) + 1) @@ @,
              !.last = [op |-> "async_send", self |-> self,
                        msg |-> [msg_obj EXCEPT !.msg_id = str(msg_id_counter(c, self))],
                        fut |-> Len(c.futures) + 1]]

\* on_recv has returned fut (0: None)
Received(c, self, msg_obj, fut) ==
    [c EXCEPT !.last = [op |-> "on_recv", self |-> self, msg |-> msg_obj, fut |-> fut]]

\* the branch of on_recv for a response that leaves its request in the table
respond_Kept(c, self, msg_obj) ==
    Received([c EXCEPT !.futures[c.in_flight_messages[msg_obj.msg_id]] =
                           set_result(@, msg_obj)],
             self, msg_obj,
             IF c.futures[c.in_flight_messages[msg_obj.msg_id]].state = "pending"
             THEN c.in_flight_messages[msg_obj.msg_id] ELSE 0)

\* the branch of on_recv for a response whose msg_id is in the table
respond(c, self, msg_obj) ==
    Received([c EXCEPT !.in_flight_messages = pop(@, msg_obj.msg_id),
                       !.futures[c.in_flight_messages[msg_obj.msg_id]] =
                           set_result(@, msg_obj)],
             self, msg_obj,
             IF c.futures[c.in_flight_messages[msg_obj.msg_id]].state = "pending"
             THEN c.in_flight_messages[msg_obj.msg_id] ELSE 0)

\* on_recv(msg) on the client self, which has no action_ methods; msg_obj is
\* BreezyMessage.from_msg(msg)
on_recv(c, self, msg_obj) ==
    IF msg_obj.msg_type = "RESPONSE"
    THEN IF msg_obj.service = "hub" /\ msg_obj.action = "ping"
         THEN Received(c, self, msg_obj, 0)
         ELSE IF msg_obj.msg_id \in DOMAIN c.in_flight_messages
         THEN respond(c, self, msg_obj)
         ELSE Received(c, self, msg_obj, 0)
    ELSE Received(c, self, msg_obj, 0)

\* the requests that the callers send
Requests ==
    {[msg_type |-> "REQUEST", service |-> sa[1], action |-> sa[2], msg_id |-> ""] :
        sa \in {<<"hub", "ping">>, <<"svc", "run">>}}

\* the messages that arrive: responses of a service and of the hub's ping
\* with any id, a broadcast request, and an info message
Arrivals ==
    {[msg_type |-> "RESPONSE", service |-> sa[1], action |-> sa[2], msg_id |-> id] :
        sa \in {<<"hub", "ping">>, <<"svc", "run">>}, id \in {"0", "1", "7"}}
    \cup {[msg_type |-> "REQUEST", service |-> "agents/*", action |-> "run", msg_id |-> "0"],
          [msg_type |-> "INFO", service |-> "svc", action |-> "run", msg_id |-> "0"]}

\* HubClient(keyname): __init__ assigns neither attribute
NewClient ==
    /\ Len(clients.instances) < MaxClients
    /\ clients' = [clients EXCEPT !.instances = Append(@, [own |-> FALSE, msg_id_counter |-> 0]),
                                  !.last = [op |-> "__init__",
                                            self |-> Len(clients.instances) + 1,
                                            msg |-> NoMsg, fut |-> 0]]
    /\ UNCHANGED <<tasks, search, nops, last>>
    /\ UNCHANGED dynevars
    /\ UNCHANGED hubvars

\* a caller sends a request through the client self
AsyncSend(self, msg_obj) ==
    /\ nops < MaxMsgs
    /\ self \in DOMAIN clients.instances
    /\ clients' = async_send(clients, self, msg_obj)
    /\ nops' = nops + 1
    /\ UNCHANGED <<tasks, search, last>>
    /\ UNCHANGED dynevars
    /\ UNCHANGED hubvars

\* the client self receives a message: start awaits on_recv(msg)
OnRecv(self, msg_obj) ==
    /\ nops < MaxMsgs
    /\ self \in DOMAIN clients.instances
    /\ clients' = on_recv(clients, self, msg_obj)
    /\ nops' = nops + 1
    /\ UNCHANGED <<tasks, search, last>>
    /\ UNCHANGED dynevars
    /\ UNCHANGED hubvars

\* the awaiter of a pending future gives up: asyncio.wait_for cancels it
TimedOut(fut) ==
    /\ nops < MaxMsgs
    /\ fut \in DOMAIN clients.futures
    /\ clients.futures[fut].state = "pending"
    /\ clients' = [clients EXCEPT !.futures[fut].state = "cancelled",
                                  !.last = [op |-> "wait_for", self |-> 0, msg |-> NoMsg,
                                            fut |-> fut]]
    /\ nops' = nops + 1
    /\ UNCHANGED <<tasks, search, last>>
    /\ UNCHANGED dynevars
    /\ UNCHANGED hubvars

NextClient ==
    \/ NewClient
    \/ \E self \in 1..MaxClients, msg_obj \in Requests : AsyncSend(self, msg_obj)
    \/ \E self \in 1..MaxClients, msg_obj \in Arrivals : OnRecv(self, msg_obj)
    \/ \E fut \in 1..MaxMsgs : TimedOut(fut)

\* a process in which no HubClient has been made yet
InitClient == InitRace

SpecClient == InitClient /\ [][NextClient]_vars

(***************************************************************************)
(* _find_subpop_yaml(dir_of_caller): the search for the manifest of the    *)
(* project, upwards from a directory.  The search is a loop; its state is  *)
(* the position (idle, loop, done), start_path, cur_path, subpop_yaml      *)
(* ("": None), the exception raised, and the number of passes of the loop  *)
(* that did not leave it.  Relative paths are resolved against the         *)
(* working directory of the process.                                       *)
(***************************************************************************)
\* os.path.exists(path) in a process whose working directory is cwd
os_path_exists(f, cwd, path) == path_exists(f, path_join2(cwd, path))

\* the search after the loop was left with subpop_yaml
find_return(s, subpop_yaml) ==
    [s EXCEPT !.pc = "done", !.subpop_yaml = subpop_yaml,
              !.exc = IF subpop_yaml = "" THEN "FileNotFoundError" ELSE ""]

\* one pass of the loop of _find_subpop_yaml
_find_subpop_yaml(f, cwd, s) ==
    IF s.cur_path = "/" THEN find_return(s, "")
    ELSE IF os_path_exists(f, cwd, path_join2(s.cur_path, "subpop.yaml"))
    THEN find_return(s, path_join2(s.cur_path, "subpop.yaml"))
    ELSE [s EXCEPT !.cur_path = dirname(s.cur_path), !.steps = @ + 1]

\* the directories that may hold a subpop.yaml
YamlDirs == {"/", "/P", SubDir}

\* the directories that the search is started from
StartDirs == {SubDir, SubDir \o "/", "/P/a.b.c", "/A/sa", "/", "//P", "a.b.c/s", "a.b.c", ""}

InitSearch ==
    /\ \E Y \in SUBSET YamlDirs :
          fs = [p \in {path_join2(y, "subpop.yaml") : y \in Y} |-> "file"] @@ Skeleton
    /\ yamls = ("/A/subpop.yaml" :> Absent) @@ ("/B/subpop.yaml" :> Absent)
    /\ environ = [set |-> FALSE, val |-> ""]
    /\ finder = DyneFinder(fs, yamls, CWD, environ, NoneVal)
    /\ st = NoModules
    /\ returned = {}
    /\ accessed = {}
    /\ last = NoLast
    /\ nops = 0
    /\ newfiles = 0
    /\ NoHubYet
    /\ Quiet

\* a call of _find_subpop_yaml(dir_of_caller) reaches the loop
FindBegin(dir_of_caller) ==
    /\ search.pc = "idle"
    /\ search' = [NoSearch EXCEPT !.pc = "loop", !.start_path = dir_of_caller,
                                  !.cur_path = dir_of_caller]
    /\ UNCHANGED <<tasks, clients, nops, last>>
    /\ UNCHANGED dynevars
    /\ UNCHANGED hubvars

\* the call makes one pass of the loop
FindPass ==
    /\ search.pc = "loop"
    /\ search.steps < MaxSteps
    /\ search' = _find_subpop_yaml(fs, CWD, search)
    /\ UNCHANGED <<tasks, clients, nops, last>>
    /\ UNCHANGED dynevars
    /\ UNCHANGED hubvars

NextSearch ==
    \/ \E dir_of_caller \in StartDirs : FindBegin(dir_of_caller)
    \/ FindPass

SpecSearch == InitSearch /\ [][NextSearch]_vars

(***************************************************************************)
(* The configuration of a subsystem: what the hub offers under getModel    *)
(* and setModel, and what a unit finds under the name MODEL that           *)
(* load_plugin binds in it.                                                *)
(***************************************************************************)
\* the attributes of class MyModel of the tests
MyModelAttrs == {"start"}

\* getattr(v, name) for the value v that load_plugin has bound to MODEL:
\* None, or the model class
handle_getattr(v, name) ==
    IF v = ObjVal("MyModel") /\ name \in MyModelAttrs
    THEN [exc |-> "", ret |-> FuncVal("function_args")]
    ELSE [exc |-> "AttributeError", ret |-> NoneVal]

\* hub.<name>(...), after the lookup of hub.<name> has returned or raised r:
\* the values a hub holds are not callable
hub_call(r) ==
    IF r.exc # "" THEN r ELSE [r EXCEPT !.exc = "TypeError", !.ret = NoneVal]

Subsystems == {"s", "t"}

ModelFields == {"RELEASE", "start"}

ModelNames == {"getModel", "setModel"}

InitModel == InitLoad

\* the record of a call hub.<name>(subsystem, ...) that returned or raised r
HubCalled(thread, name, subsystem, caller, r) ==
    /\ hub' = r.hub
    /\ thread_ctx' = r.ctx
    /\ box' = r.box
    /\ aio' = r.aio
    /\ last' = [NoLast EXCEPT !.op = name, !.arg = subsystem, !.thread = thread,
                              !.exc = r.exc, !.ret = r.ret, !.where = r.where,
                              !.caller = caller]

\* hub.getModel(subsystem), called in a thread by code of caller
GetModel(thread, subsystem, caller) ==
    /\ nops < MaxHubOps
    /\ hub.exc = ""
    /\ HubCalled(thread, "getModel", subsystem, caller,
                 hub_call(hub_getattr(hub, thread_ctx, box, aio, thread, "getModel", caller)))
    /\ nops' = nops + 1
    /\ UNCHANGED <<sys, got>>
    /\ UNCHANGED dynevars
    /\ UNCHANGED othervars

\* hub.setModel(subsystem, model), called in a thread by code of caller
SetModel(thread, subsystem, caller) ==
    /\ nops < MaxHubOps
    /\ hub.exc = ""
    /\ HubCalled(thread, "setModel", subsystem, caller,
                 hub_call(hub_getattr(hub, thread_ctx, box, aio, thread, "setModel", caller)))
    /\ nops' = nops + 1
    /\ UNCHANGED <<sys, got>>
    /\ UNCHANGED dynevars
    /\ UNCHANGED othervars

\* the record of an attribute lookup on the MODEL of module self
HandleRead(op, self, name, r) ==
    last' = [NoLast EXCEPT !.op = op, !.arg = name, !.self = self, !.exc = r.exc,
                           !.ret = r.ret]

\* mod.MODEL.<name>, for a module that load_plugin has returned
ReadField(self, name) ==
    /\ nops < MaxHubOps
    /\ self \in 1..Len(st.heap)
    /\ HasAttr(st.heap[self], "MODEL")
    /\ HandleRead("read", self, name, handle_getattr(st.heap[self].attrs["MODEL"], name))
    /\ nops' = nops + 1
    /\ UNCHANGED dynevars
    /\ UNCHANGED hubvars
    /\ UNCHANGED othervars

\* mod.MODEL.merge(), for a module that load_plugin has returned
Merge(self) ==
    /\ nops < MaxHubOps
    /\ self \in 1..Len(st.heap)
    /\ HasAttr(st.heap[self], "MODEL")
    /\ HandleRead("merge", self, "merge", handle_getattr(st.heap[self].attrs["MODEL"], "merge"))
    /\ nops' = nops + 1
    /\ UNCHANGED dynevars
    /\ UNCHANGED hubvars
    /\ UNCHANGED othervars

NextModel ==
    \/ \E thread \in Threads, subsystem \in Subsystems, caller \in Callers :
          GetModel(thread, subsystem, caller)
    \/ \E thread \in Threads, subsystem \in Subsystems, caller \in Callers :
          SetModel(thread, subsystem, caller)
    \/ \E key \in ModelNames, val \in HubValues : HubSet(key, val)
    \/ \E model \in Models : LoadPlugin(path_join2(SubDir, "first.py"), "u", model)
    \/ \E self \in 1..Len(st.heap), name \in ModelFields : ReadField(self, name)
    \/ \E self \in 1..Len(st.heap) : Merge(self)

SpecModel == InitModel /\ [][NextModel]_vars

(***************************************************************************)
(* Properties.                                                             *)
(***************************************************************************)
\* the number of segments of a dotted name after its first segment
NumDots(name) == Cardinality({i \in 1..Len(name) : CharAt(name, i) = "."})

\* the segment of a dotted name at position k (1 is the prefix)
Segment(name, k) == split(name, ".")[k]

\* the namespace (segments 2..4) of a name with at least 4 segments
NamespaceOf(name) == Segment(name, 2) \o "." \o Segment(name, 3) \o "." \o Segment(name, 4)

\* the roots of the search path, in search order
SearchRoots == IF environ.set THEN split(environ.val, ":") ELSE << >>

ManifestPathOf(root) == rstrip_slash(root) \o "/subpop.yaml"

\* the root at position i of the search path carries a valid manifest that
\* claims namespace ns
Claims(i, ns) ==
    LET y == ManifestPathOf(SearchRoots[i])
    IN  /\ y \in DOMAIN fs
        /\ yamls[y].t = "map"
        /\ "namespace" \in yamls[y].keys
        /\ yamls[y].namespace = ns

Claimers(ns) == {i \in 1..Len(SearchRoots) : Claims(i, ns)}

\* the earliest root of the search path that claims ns
FirstClaimer(ns) == CHOOSE i \in Claimers(ns) : \A j \in Claimers(ns) : i <= j

LastLoadedDeep == last.op = "load_module" /\ NumDots(last.arg) >= 4

\* C1: when several roots of the search path claim the namespace of a
\* resolved path, the candidate path comes from the subsystem table and
\* project path of the earliest of these roots.
C1_EarliestRootWins ==
    (LastLoadedDeep /\ Cardinality(Claimers(NamespaceOf(last.arg))) >= 2) =>
        LET root == rstrip_slash(SearchRoots[FirstClaimer(NamespaceOf(last.arg))])
            subs == yamls[ManifestPathOf(root)].subsystems
            sub == Segment(last.arg, 5)
        IN  IF sub \in DOMAIN subs
            THEN /\ last.partial_path.t = "str"
                 /\ startswith(last.partial_path.s, root \o "/" \o subs[sub])
            ELSE last.partial_path.t = "None"

\* the module objects that are units (they are not packages)
IsUnit(i) == ~HasAttr(st.heap[i], "__path__")

\* C2: all requests for one namespace path are answered with objects of the
\* same class, with the identical object when it is a unit, and no unit
\* file's source is executed more than once.
C2_LoadOnce ==
    /\ \A r1, r2 \in returned :
        r1[1] = r2[1] =>
            /\ st.heap[r1[2]].cls = st.heap[r2[2]].cls
            /\ IsUnit(r1[2]) = IsUnit(r2[2])
            /\ IsUnit(r1[2]) => r1[2] = r2[2]
    /\ \A file \in DOMAIN st.execs : st.execs[file] <= 1

\* the unit names of the files of a directory that are not reserved
Reserved == {"init.py", "__init__.py"}

UnitFilesOf(dir) ==
    {file \in os_listdir(fs, dir) :
        /\ endswith(file, ".py")
        /\ file \notin Reserved
        /\ fs[path_join2(Canonical(dir), file)] = "file"}

\* unit name of directory object self is cached: the directory holds the
\* unit's module, or the module cache does
Cached(self, name) ==
    \/ HasAttr(st.heap[self], name) /\ IsModule(st.heap[self].attrs[name])
    \/ (NameOf(self) \o "." \o name) \in DOMAIN st.sys_modules

LastAccess == last.op \in {"getattr", "iter"}

\* C3: after the first access to a subsystem directory, a named get or an
\* enumeration, every non-reserved unit of its filesystem directory is
\* cached.
C3_FirstAccessLoadsAll ==
    (LastAccess /\ last.first /\ st.heap[last.self].attrs["path"].t = "str") =>
        \A file \in UnitFilesOf(st.heap[last.self].attrs["path"].s) :
            Cached(last.self, DropLast(file, 3))

\* C4: an access to a subsystem directory that is not the first one does
\* not scan the filesystem and loads no unit, and a get for a name that is
\* not cached fails with a not-found error.
C4_NeverRescans ==
    (LastAccess /\ ~last.first) =>
        /\ ~last.scanned
        /\ last.loaded = {}
        /\ last.executed = {}
        /\ (last.op = "getattr" /\ ~Cached(last.self, last.arg)) => last.exc = "AttributeError"

\* C5: a completed enumeration of a subsystem directory yields exactly the
\* units of the directory without the reserved names (init, __init__).
C5_EnumerationExcludesReserved ==
    (last.op = "iter" /\ last.exc = "" /\ st.heap[last.self].attrs["path"].t = "str") =>
        {last.names[i] : i \in DOMAIN last.names} =
            {DropLast(file, 3) :
                file \in {g \in os_listdir(fs, st.heap[last.self].attrs["path"].s) :
                            endswith(g, ".py") /\ g \notin Reserved}}

\* C6: a completed enumeration of a subsystem directory yields one item per
\* unit file of the directory, and every item is a module object.
C6_IterYieldsModules ==
    (last.op = "iter" /\ last.exc = "" /\ st.heap[last.self].attrs["path"].t = "str") =>
        /\ Len(last.items) =
              Cardinality({g \in os_listdir(fs, st.heap[last.self].attrs["path"].s) :
                              endswith(g, ".py") /\ g # "__init__.py"})
        /\ \A i \in DOMAIN last.items : IsModule(last.items[i])

\* C7: the classification of a candidate path is Container if it is a
\* directory, else Unit if the path plus ".py" is a regular file, else
\* NotFound.
C7_Classification ==
    (LastLoadedDeep /\ last.partial_path.t = "str") =>
        last.mod_type =
            IF os_stat(fs, last.partial_path.s) = "dir" THEN "sub"
            ELSE IF os_stat(fs, last.partial_path.s \o ".py") = "file" THEN "plugin"
            ELSE "None"

\* C8: a candidate path that is a directory while the path plus ".py" is a
\* regular file is classified Container, resolves to a PluginDirectory, and
\* the unit file is not executed, by this or any other operation.
C8_DirectoryWins ==
    /\ (/\ LastLoadedDeep
        /\ last.partial_path.t = "str"
        /\ os_stat(fs, last.partial_path.s) = "dir"
        /\ os_stat(fs, last.partial_path.s \o ".py") = "file") =>
            /\ last.mod_type = "sub"
            /\ last.exc = ""
            /\ st.heap[last.ret.id].cls = "PluginDirectory"
            /\ last.executed = {}
    /\ \A file \in DOMAIN st.execs : os_stat(fs, DropLast(file, 3)) # "dir"

C8_Witness ==
    /\ LastLoadedDeep
    /\ last.exc = ""
    /\ last.mod_type = "sub"
    /\ os_stat(fs, last.partial_path.s) = "dir"
    /\ os_stat(fs, last.partial_path.s \o ".py") = "file"

\* the path of arg under the canonical plugin path
DefaultPathOf(name) ==
    finder.plugin_path \o "/" \o NamespaceOf(name) \o "/"
        \o join("/", SubSeq(split(name, "."), 5, NumDots(name) + 1))

\* C9: a resolution below a namespace that some manifest of the search path
\* claims never uses the plugin path: it fails with ModuleNotFoundError when
\* the manifest does not declare the subsystem, and otherwise its candidate
\* lies below the manifest's project; a resolution below an unclaimed
\* namespace uses the path under the plugin path.
C9_DefaultRootIffUnclaimed ==
    LastLoadedDeep =>
        IF Claimers(NamespaceOf(last.arg)) # {}
        THEN LET proj == finder.yaml_search_dict[NamespaceOf(last.arg)]
                 sub == Segment(last.arg, 5)
             IN  IF sub \in DOMAIN proj.yaml_dat.subsystems
                 THEN /\ last.partial_path.t = "str"
                      /\ startswith(last.partial_path.s,
                                    DropLast(proj.yaml_path, Len("/subpop.yaml")) \o "/"
                                        \o proj.yaml_dat.subsystems[sub])
                      /\ ~startswith(last.partial_path.s, finder.plugin_path)
                 ELSE /\ last.exc = "ModuleNotFoundError"
                      /\ last.partial_path.t = "None"
                      /\ last.ret.t = "None"
        ELSE last.partial_path = StrVal(DefaultPathOf(last.arg))

C9_Witness ==
    /\ LastLoadedDeep
    /\ Claimers(NamespaceOf(last.arg)) # {}
    /\ Segment(last.arg, 5) \notin
          DOMAIN finder.yaml_search_dict[NamespaceOf(last.arg)].yaml_dat.subsystems
    /\ os_stat(fs, DefaultPathOf(last.arg)) = "dir"
    /\ last.exc = "ModuleNotFoundError"

\* C10: load_module of a name with fewer than 4 segments after the prefix
\* succeeds with a plain, empty package module and determines no candidate
\* path.
C10_ShortNameIsRootContainer ==
    (last.op = "load_module" /\ NumDots(last.arg) < 4) =>
        /\ last.exc = ""
        /\ IsModule(last.ret)
        /\ st.heap[last.ret.id].cls = "ModuleType"
        /\ st.heap[last.ret.id].attrs =
              ("__name__" :> StrVal(last.arg)) @@ ("__doc__" :> NoneVal) @@ ("__path__" :> ListVal)
        /\ st.sys_modules[last.arg] = last.ret.id
        /\ last.partial_path.t = "None"
        /\ last.executed = {}

C10_Witness ==
    /\ last.op = "load_module"
    /\ NumDots(last.arg) = 3
    /\ NamespaceOf(last.arg) \in DOMAIN finder.yaml_search_dict
    /\ last.exc = ""

\* the root at position i of the search path has a subpop.yaml
HasManifest(i) == ManifestPathOf(SearchRoots[i]) \in DOMAIN fs

\* the document of the subpop.yaml of the root at position i
ManifestOf(i) == yamls[ManifestPathOf(SearchRoots[i])]

\* the document is a mapping with a namespace
WellFormed(y) == y.t = "map" /\ "namespace" \in y.keys

\* C11: the construction of the manifest store completes whatever the
\* documents of the roots are; every namespace of the store is claimed by a
\* well-formed manifest of a searched root, and every well-formed manifest of
\* a searched root has its namespace in the store.
C11_MalformedRootSkipped ==
    last.op = "DyneFinder" =>
        /\ finder.exc = ""
        /\ \A ns \in DOMAIN finder.yaml_search_dict : Claimers(ns) # {}
        /\ \A i \in 1..Len(SearchRoots) :
              (HasManifest(i) /\ WellFormed(ManifestOf(i))) =>
                  ManifestOf(i).namespace \in DOMAIN finder.yaml_search_dict

\* the keys of the hub that a set operation has registered
Registered == {k \in DOMAIN hub.entries : hub.entries[k] \in HubValues}

\* C15: reading a key of the hub that was never registered fails with
\* AttributeError, and the error names the place of the code that read it.
C15_MissingKeyFails ==
    (last.op = "get" /\ last.arg \notin Registered) =>
        /\ last.exc = "AttributeError"
        /\ last.ret = NoneVal
        /\ last.where = last.caller

\* what a thread reads for a key of the hub
ReadOf(h, thread, key) ==
    [f \in {"exc", "ret"} |->
        hub_getattr(h, thread_ctx, box, aio, thread, key, "")[f]]

\* the last operation read a registered key and got the value set last
GetsLastSet ==
    (last.op = "get" /\ last.arg \in Registered) =>
        (last.exc = "" /\ last.ret = hub.entries[last.arg])

\* a set operation leaves what every thread reads for every other key
OthersKept ==
    \A key \in HubKeys \ {last'.arg} : \A thread \in Threads :
        ReadOf(hub', thread, key) = ReadOf(hub, thread, key)

\* C16: a get of a registered key returns the value most recently set for
\* it, whatever the key's name, and a set of one key changes the value read
\* for no other key.
C16_GetReturnsLastSet ==
    [][GetsLastSet' /\ (last'.op = "set" => OthersKept)]_vars

\* the accesses of hub.LOOP that returned a handle
Handles == {g \in got : g[2] # 0}

\* C17: all accesses of hub.LOOP from one thread return the same handle, and
\* accesses from two threads return two handles.
C17_OwnHandlePerThread ==
    \A g1, g2 \in Handles : (g1[1] = g2[1]) <=> (g1[2] = g2[2])

\* the threads that have accessed hub.LOOP
Asked == {g[1] : g \in got}

\* C18: a constructed hub holds a handle for a thread only after the
\* thread's first access of hub.LOOP, and no thread that has not accessed
\* hub.LOOP has been given a new current loop.
C18_LazyContext ==
    hub.exc = "" =>
        /\ \A t \in Threads : thread_ctx[t] # 0 => t \in Asked
        /\ \A t \in Threads : aio.current[t] # aio.running[t] => t \in Asked

\* C19: Hub() completes without error, and leaves a DyneFinder on
\* sys.meta_path.
C19_HubConstructs ==
    (last.op = "Hub" /\ last.arg = "") =>
        /\ last.exc = ""
        /\ \E i \in DOMAIN sys.meta_path : sys.meta_path[i] = "DyneFinder"

\* a call of load_plugin that returns: the module is a new object, not one
\* returned before, and the source of the file was executed once more
FreshExecution ==
    /\ last'.ret.id \notin 1..Len(st.heap)
    /\ \A r \in returned : r[2] # last'.ret.id
    /\ st'.heap[last'.ret.id].cls = "ModuleType"
    /\ ExecsOf(st', last'.arg) = ExecsOf(st, last'.arg) + 1

\* C12: a call of load_plugin leaves sys.modules, the hub's entries and the
\* modules loaded before as they are; when it returns, it has executed the
\* source of the file once more and returns a new module object, distinct
\* from every module returned earlier.
C12_NoCachingNoRegistration ==
    [][last'.op = "load_plugin" =>
          /\ st'.sys_modules = st.sys_modules
          /\ hub' = hub
          /\ \A i \in 1..Len(st.heap) : st'.heap[i] = st.heap[i]
          /\ last'.exc = "" => FreshExecution]_vars

\* load_plugin has returned a second module for a file it had loaded
\* before, in a process that has modules in sys.modules
C12_Witness ==
    /\ last.op = "load_plugin"
    /\ last.exc = ""
    /\ \E r \in returned : r[1] = last.arg /\ r[2] # last.ret.id
    /\ ExecsOf(st, last.arg) >= 2
    /\ DOMAIN st.sys_modules # {}
    /\ DOMAIN hub.entries # {}

\* the source of the file binds __init__ to a function that takes no
\* arguments
HasInitializer(file) == SourceOf(file).init = "function"

\* C13: when an operation executes the source of a unit file that defines
\* the function __init__, the next thing it does is to call that function,
\* once, and it calls __init__ of no file at any other time.
C13_InitializerOncePerLoad ==
    \A i \in DOMAIN last.events :
        /\ (last.events[i].ev = "exec" /\ HasInitializer(last.events[i].file)) =>
              /\ i + 1 \in DOMAIN last.events
              /\ last.events[i + 1] = Event("init", last.events[i].file, {})
        /\ last.events[i].ev = "init" =>
              /\ i > 1
              /\ last.events[i - 1].ev = "exec"
              /\ last.events[i - 1].file = last.events[i].file
              /\ HasInitializer(last.events[i].file)

\* C14: whenever the source of a unit file starts executing, its namespace
\* already holds the names hub and MODEL.
C14_HubAndModelBeforeExec ==
    \A i \in DOMAIN st.log :
        st.log[i].ev = "exec" => {"hub", "MODEL"} \subseteq st.log[i].names

\* the unit first of a subsystem directory holds the configuration model
FirstObserves(me, model) ==
    /\ HasAttr(me, "first")
    /\ IsModule(me.attrs["first"])
    /\ HasAttr(st.heap[me.attrs["first"].id], "MODEL")
    /\ st.heap[me.attrs["first"].id].attrs["MODEL"] = model

\* C20: launch(Model, release=...) on an imported subsystem returns, and
\* the unit first of the subsystem then holds the model started with that
\* release.
C20_LaunchInitialisesModel ==
    last.op = "launch" =>
        /\ last.exc = ""
        /\ FirstObserves(st.heap[last.self], last.ret)

\* the deferred handles of the subsystems that getModel has returned
Proxies == {r \in returned : r[1] \in Subsystems}

\* C21: hub.getModel(subsystem) returns a handle, the same one on every
\* call for one subsystem and different ones for different subsystems,
\* whatever calls of setModel and getModel came before.
C21_GetModelMemoized ==
    /\ last.op = "getModel" => (last.exc = "" /\ <<last.arg, last.ret.id>> \in Proxies)
    /\ last.op = "setModel" => last.exc = ""
    /\ \A p, q \in Proxies : (p[1] = q[1]) <=> (p[2] = q[2])

\* the handle that a unit holds under MODEL has copied a model's fields
Resolved(v) == v.t = "model"

\* C22: a field read or a merge() on the MODEL of a unit succeeds and leaves
\* the handle resolved, and a resolved handle never changes again.
C22_ResolvedIsTerminal ==
    [][/\ last'.op \in {"read", "merge"} =>
             /\ last'.exc = ""
             /\ Resolved(st'.heap[last'.self].attrs["MODEL"])
       /\ \A i \in 1..Len(st.heap) :
             (HasAttr(st.heap[i], "MODEL") /\ Resolved(st.heap[i].attrs["MODEL"])) =>
                 st'.heap[i].attrs["MODEL"] = st.heap[i].attrs["MODEL"]]_vars

\* the entries that sys.modules had before a step are the same after it
EntriesKept ==
    \A n \in DOMAIN st.sys_modules :
        n \in DOMAIN st'.sys_modules /\ st'.sys_modules[n] = st.sys_modules[n]

\* C23: a load through the finder that fails while the source of the unit
\* executes leaves no entry for the unit in sys.modules, and leaves the
\* entries of the other modules as they were.
C23_FailedLoadLeavesNoEntry ==
    [][(last'.op \in {"load_module", "import"} /\ last'.exc = "NameError") =>
          /\ EntriesKept
          /\ last'.arg \notin DOMAIN st.sys_modules => last'.arg \notin DOMAIN st'.sys_modules]_vars

\* the last call of load_module could not map the name to a path: the
\* claiming manifest does not declare the subsystem, or the path is neither
\* a directory nor a unit file
CannotMap == last.op = "load_module" /\ last.mod_type \in {"unresolved", "None"}

\* C24: a call of load_module that cannot map the name raises
\* ModuleNotFoundError and changes neither the modules nor the finder's
\* manifests; an import that fails registers nothing under the name and
\* leaves the entries of sys.modules as they were.
C24_FailedResolutionIsLocal ==
    [][/\ CannotMap' =>
             /\ last'.exc = "ModuleNotFoundError"
             /\ st' = st
             /\ finder' = finder
       /\ (last'.op = "import" /\ last'.exc # "") =>
             /\ EntriesKept
             /\ last'.arg \notin DOMAIN st'.sys_modules
             /\ finder' = finder]_vars

\* load_module has failed for a subsystem that the claiming manifest does
\* not declare, in a process that has modules in sys.modules
C24_Witness ==
    /\ CannotMap
    /\ last.mod_type = "unresolved"
    /\ last.exc = "ModuleNotFoundError"
    /\ DOMAIN finder.yaml_search_dict # {}
    /\ DOMAIN st.sys_modules # {}

\* the units that a thread did not find on the directory and loaded itself
OwnLoads(t) ==
    {tasks[t].held[i] : i \in {j \in DOMAIN tasks[t].held : tasks[t].held[j].loaded}}

\* C25: nothing synchronizes the threads that enumerate a directory: two
\* threads that both found a unit not loaded have both executed its source,
\* and hold different module objects for it.
C25_NoGateOnFirstAccess ==
    \A t, u \in Threads : \A a \in OwnLoads(t), b \in OwnLoads(u) :
        (t # u /\ a.name = b.name) =>
            /\ a.ret # b.ret
            /\ ExecsOf(st, path_join2(SubDir, a.name \o ".py")) >= 2

\* two threads both looked a unit up before its source was ever executed,
\* both loaded it, and hold different module objects for it
C25_Witness ==
    \E t, u \in Threads : \E a \in OwnLoads(t), b \in OwnLoads(u) :
        /\ t # u
        /\ a.name = b.name
        /\ a.seen = 0
        /\ b.seen = 0
        /\ a.ret # b.ret
        /\ ExecsOf(st, path_join2(SubDir, a.name \o ".py")) = 2

\* the names of the dyne namespace: dyne itself and the dotted names below it
InNamespace(fullname) ==
    \/ fullname = "dyne"
    \/ Len(fullname) >= 5 /\ SubSeq(fullname, 1, 5) = "dyne."

\* C26: find_module returns the finder exactly for dyne and the names that
\* start with "dyne.", and None for every other name; the import of any
\* other name fails with ModuleNotFoundError and changes neither the
\* modules of the interpreter nor the finder.
C26_ClaimsOnlyNamespace ==
    [][nops' = nops + 1 =>
          /\ last'.op = "find_module" =>
                 /\ last'.ret = FinderVal <=> InNamespace(last'.arg)
                 /\ last'.ret \in {FinderVal, NoneVal}
          /\ last'.op \in {"find_module", "import"} /\ ~InNamespace(last'.arg) =>
                 /\ st' = st
                 /\ finder' = finder
                 /\ last'.op = "import" => last'.exc = "ModuleNotFoundError"]_vars

\* after a unit of the namespace has been imported, the import of dynex has
\* failed and has left the imported modules as they were
C26_Witness ==
    /\ last.op = "import"
    /\ last.arg = "dynex"
    /\ last.exc = "ModuleNotFoundError"
    /\ "dyne.a.b.c.s.f" \in DOMAIN st.sys_modules
    /\ "dynex" \notin DOMAIN st.sys_modules

\* the response of the hub to a ping
IsPing(msg_obj) == msg_obj.service = "hub" /\ msg_obj.action = "ping"

\* a response that on_recv matches against the requests in flight
IsAnswer(msg_obj) == msg_obj.msg_type = "RESPONSE" /\ ~IsPing(msg_obj)

\* C27: a future that is done never changes again; a future becomes done
\* only when on_recv handles a RESPONSE whose msg_id is the id that
\* async_send gave to the future's request; after on_recv has handled a
\* RESPONSE that is not a ping, no request with its msg_id is in flight,
\* whether or not the awaiter had given up; and a ping, a RESPONSE with an
\* id that is not in flight or any other message changes no future.
C27_ResponseCompletesOnce ==
    [][/\ \A fut \in DOMAIN clients.futures :
             /\ clients.futures[fut].state = "done" =>
                    clients'.futures[fut] = clients.futures[fut]
             /\ clients.futures[fut].state # "done" /\ clients'.futures[fut].state = "done" =>
                    /\ clients'.last.op = "on_recv"
                    /\ IsAnswer(clients'.last.msg)
                    /\ clients'.last.msg.msg_id = clients.futures[fut].msg_obj.msg_id
                    /\ clients'.futures[fut].result = clients'.last.msg
       /\ nops' = nops + 1 /\ clients'.last.op = "on_recv" =>
             /\ IsAnswer(clients'.last.msg) =>
                    clients'.last.msg.msg_id \notin DOMAIN clients'.in_flight_messages
             /\ \/ ~IsAnswer(clients'.last.msg)
                \/ clients'.last.msg.msg_id \notin DOMAIN clients.in_flight_messages
                => /\ clients'.futures = clients.futures
                   /\ clients'.in_flight_messages = clients.in_flight_messages]_vars

\* one client has sent one request, whose awaiter then gave up; the
\* response to it has been handled as the third step, has completed nothing,
\* and the request is in flight no more
C27_Witness ==
    /\ Len(clients.instances) = 1
    /\ Len(clients.futures) = 1
    /\ nops = 3
    /\ clients.last.op = "on_recv"
    /\ IsAnswer(clients.last.msg)
    /\ clients.last.fut = 0
    /\ clients.futures[1].state = "cancelled"
    /\ clients.futures[1].msg_obj.msg_id = clients.last.msg.msg_id
    /\ DOMAIN clients.in_flight_messages = {}

\* C28: async_send leaves every entry that was in flight in the table, and
\* on_recv on one client neither changes a future that another client
\* created nor removes its entry.
C28_TablesIndependent ==
    [][/\ nops' = nops + 1 /\ clients'.last.op = "async_send" =>
             \A id \in DOMAIN clients.in_flight_messages :
                 /\ id \in DOMAIN clients'.in_flight_messages
                 /\ clients'.in_flight_messages[id] = clients.in_flight_messages[id]
       /\ nops' = nops + 1 /\ clients'.last.op = "on_recv" =>
             \A id \in DOMAIN clients.in_flight_messages :
                 clients.futures[clients.in_flight_messages[id]].self # clients'.last.self =>
                     /\ id \in DOMAIN clients'.in_flight_messages
                     /\ clients'.futures[clients.in_flight_messages[id]]
                            = clients.futures[clients.in_flight_messages[id]]]_vars

\* the directories at or above the directory p: the prefixes of p that end
\* where a component ends, and the root for an absolute p
Above(p) ==
    {SubSeq(p, 1, i) : i \in {j \in 1..Len(p) : j = Len(p) \/ CharAt(p, j + 1) = "/"}}
    \cup (IF startswith(p, "/") THEN {"/"} ELSE {""})

\* the directory d holds a subpop.yaml
HoldsYaml(d) == os_path_exists(fs, CWD, path_join2(d, "subpop.yaml"))

\* C29: the search ends: a pass that stays in the loop goes on with a
\* shorter path, so that the loop is passed at most as often as the start
\* directory has characters; and it ends with the subpop.yaml of the
\* nearest directory at or above the start directory that holds one, or
\* with FileNotFoundError when none does.
C29_SearchTerminates ==
    /\ search.steps <= Len(search.start_path)
    /\ search.pc = "done" /\ search.exc = "" =>
          /\ search.cur_path \in Above(search.start_path)
          /\ search.subpop_yaml = path_join2(search.cur_path, "subpop.yaml")
          /\ HoldsYaml(search.cur_path)
          /\ \A d \in Above(search.start_path) :
                 Len(d) > Len(search.cur_path) => ~HoldsYaml(d)
    /\ search.pc = "done" /\ search.exc # "" =>
          /\ search.exc = "FileNotFoundError"
          /\ \A d \in Above(search.start_path) : ~HoldsYaml(d)

====
